---------------------------- MODULE Spec2Model ----------------------------
(***************************************************************************)
(* Model of the ccodetools analysis engine:                                *)
(*   - CachedAnalyzer (impl/cached_analyzer.py): an LRU cache keyed by     *)
(*     (backend id, file path, content hash) in front of a backend;        *)
(*   - TreeSitterAnalyzer (impl/tree_sitter.py) and ClangAnalyzer          *)
(*     (impl/clang_analyzer.py): tree walks over a parsed C file.          *)
(* Spec     is the state machine of one CachedAnalyzer and the file system *)
(*          it reads;                                                      *)
(* SpecTree draws a C source file from a bounded set and applies the       *)
(*          backends' operations to it.                                    *)
(* SpecCall takes a cached call in its two steps, with files that fail to  *)
(*          be read and writes between the steps.                          *)
(***************************************************************************)
EXTENDS Integers, Sequences, FiniteSets, TLC

VARIABLES
    fs,          \* file system: path -> content id (Missing when absent)
    pending,     \* the file written since the last lookup (NoPath when none)
    backend,     \* class name of the analyzer chosen at construction
    max_files,   \* CachedAnalyzer._max_files
    file_cache,  \* CachedAnalyzer._file_cache, an OrderedDict: oldest first
    hist,        \* the completed cache lookups, oldest first
    ret,         \* outcome of the most recent call
    invoked,     \* whether the most recent call invoked the wrapped backend
    evicted,     \* key removed by the most recent call (NoKey when none)
    src,         \* the C source file under analysis (SpecTree)
    out          \* result of the most recent backend operation (SpecTree)

vars == <<fs, pending, backend, max_files, file_cache, hist, ret, invoked, evicted, src, out>>

cacheVars == <<fs, pending, max_files, file_cache, hist, ret, invoked, evicted>>
treeVars == <<src, out>>

(***************************************************************************)
(* Bounds                                                                  *)
(***************************************************************************)
NumContents == 2   \* distinct byte contents a file can hold
MaxCap == 2        \* largest max_files a CachedAnalyzer is built with
MaxOps == 4        \* cache lookups in one run

PathSeq == <<"a.c", "b.c", "c.c">>
Paths == {PathSeq[i] : i \in 1..Len(PathSeq)}
Contents == 1..NumContents
Missing == 0
Backends == {"TreeSitterAnalyzer", "ClangAnalyzer"}
CachedOpSeq == <<"analyze_file", "list_functions", "get_call_graph", "list_globals">>
CachedOps == {CachedOpSeq[i] : i \in 1..Len(CachedOpSeq)}
PassOps == {"get_function_body", "get_preprocessor_directives",
            "get_function_dependencies", "summarize_function", "find_symbol",
            "get_error_handling_paths", "list_side_effects"}

(***************************************************************************)
(* CachedAnalyzer                                                          *)
(***************************************************************************)
\* one slot of entry["derived"] shared by the four operations
DerivedKind_Shared(op) == "derived"
\* The derived-result slot each cached operation reads and writes.
DerivedKind(op) ==
    CASE op = "analyze_file" -> "analysis_result"
      [] op = "list_functions" -> "functions"
      [] op = "get_call_graph" -> "call_graph"
      [] op = "list_globals" -> "globals"

\* What the wrapped analyzer returns for an operation on a file holding
\* content c: the analyzer reads the file itself, so its result is a
\* function of the operation, the path and the bytes it finds.
BackendResult(op, path, c) == [op |-> op, path |-> path, of |-> c]

NoValue == [op |-> "none", path |-> "none", of |-> Missing]
NoKey == <<"none", "none", <<"none", Missing>>>>
NoRet == [kind |-> "none", op |-> "none", path |-> "none", status |-> "none",
          value |-> NoValue]

\* hashlib.sha256(content).hexdigest(): distinct contents, distinct digests.
sha256(c) == <<"sha256", c>>

backend_id == backend

read_and_hash(path) == <<fs[path], sha256(fs[path])>>

CacheKey_NoHash(path, content_hash) == <<backend_id, path, sha256(Missing)>>
CacheKey(path, content_hash) == <<backend_id, path, content_hash>>

Keys(cache) == {cache[i].key : i \in 1..Len(cache)}
IndexOf(cache, key) == CHOOSE i \in 1..Len(cache) : cache[i].key = key

\* OrderedDict.move_to_end(key)
move_to_end(cache, key) ==
    LET i == IndexOf(cache, key)
    IN  SubSeq(cache, 1, i - 1) \o SubSeq(cache, i + 1, Len(cache)) \o <<cache[i]>>

NoBump(cache, key) == cache
LruBump(cache, key) == move_to_end(cache, key)

\* OrderedDict.popitem(last=False): the oldest item leaves
PopNewest(cache) == [rest |-> SubSeq(cache, 1, Len(cache) - 1),
                     key |-> cache[Len(cache)].key]
popitem(cache) == [rest |-> Tail(cache), key |-> Head(cache).key]

NeedsEvict_Greater(cache) == Len(cache) > max_files
NeedsEvict(cache) == Len(cache) >= max_files

\* _get_file_entry on a readable file: the cache after the lookup, with the
\* entry looked up in last place, or a failure.
\* status: "hit", "miss", or "KeyError" (popitem on an empty OrderedDict).
\* _get_file_entry filling the four derived results of a new entry at once
get_file_entry_Eager(path) ==
    LET rh == read_and_hash(path)
        key == CacheKey(path, rh[2])
        all == [k \in {DerivedKind(op) : op \in CachedOps} |->
                   BackendResult(CHOOSE op \in CachedOps : DerivedKind(op) = k, path, rh[1])]
    IN  IF key \in Keys(file_cache)
        THEN [status |-> "hit", key |-> key, evicted |-> NoKey,
              cache |-> LruBump(file_cache, key)]
        ELSE IF NeedsEvict(file_cache) /\ Len(file_cache) = 0
        THEN [status |-> "KeyError", key |-> key, evicted |-> NoKey,
              cache |-> file_cache]
        ELSE LET pop == popitem(file_cache)
                 kept == IF NeedsEvict(file_cache) THEN pop.rest ELSE file_cache
                 gone == IF NeedsEvict(file_cache) THEN pop.key ELSE NoKey
                 entry == [key |-> key, file_path |-> path, hash |-> rh[2],
                           content |-> rh[1], derived |-> all]
             IN  [status |-> "miss", key |-> key, evicted |-> gone,
                  cache |-> Append(kept, entry)]
get_file_entry(path) ==
    LET rh == read_and_hash(path)
        key == CacheKey(path, rh[2])
    IN  IF key \in Keys(file_cache)
        THEN [status |-> "hit", key |-> key, evicted |-> NoKey,
              cache |-> LruBump(file_cache, key)]
        ELSE IF NeedsEvict(file_cache) /\ Len(file_cache) = 0
        THEN [status |-> "KeyError", key |-> key, evicted |-> NoKey,
              cache |-> file_cache]
        ELSE LET pop == popitem(file_cache)
                 kept == IF NeedsEvict(file_cache) THEN pop.rest ELSE file_cache
                 gone == IF NeedsEvict(file_cache) THEN pop.key ELSE NoKey
                 entry == [key |-> key, file_path |-> path, hash |-> rh[2],
                           content |-> rh[1], derived |-> <<>>]
             IN  [status |-> "miss", key |-> key, evicted |-> gone,
                  cache |-> Append(kept, entry)]

\* The position, in the entry that get_file_entry returned, of the entry for key
EntryIndex(cache, key) == IndexOf(cache, key)

(***************************************************************************)
(* The callers.  The code treats the file paths alike, and the four cached *)
(* operations alike, so a run introduces them in the order of PathSeq and  *)
(* CachedOpSeq, and gives a file its contents in the order 1, 2, ...       *)
(* The cache sees a file only when a lookup reads it, and a write commutes *)
(* with the lookups of the other files: a file is rewritten right before   *)
(* the call that reads it.                                                 *)
(***************************************************************************)
InitialContent == 1
NoPath == "none"
SeenPaths == {hist[i].path : i \in 1..Len(hist)}
SeenOps == {hist[i].op : i \in 1..Len(hist)}
SeenContents(path) == {hist[i].content : i \in {j \in 1..Len(hist) : hist[j].path = path}}
NextPaths == SeenPaths \cup
             {PathSeq[i] : i \in {Cardinality(SeenPaths) + 1} \cap 1..Len(PathSeq)}
NextOps == SeenOps \cup
           {CachedOpSeq[i] : i \in {Cardinality(SeenOps) + 1} \cap 1..Len(CachedOpSeq)}
NextContents(path) == {c \in Contents : \A d \in 1..(c - 1) : d \in SeenContents(path)}

\* analyze_file, list_functions, get_call_graph, list_globals
CachedCall(op, path) ==
    /\ ret = NoRet
    /\ Len(hist) < MaxOps
    /\ op \in NextOps /\ path \in NextPaths
    /\ pending \in {NoPath, path}
    /\ IF fs[path] = Missing
       THEN \* open() raises before the cache is touched
            /\ ret' = [kind |-> "cached", op |-> op, path |-> path,
                       status |-> "IOError", value |-> NoValue]
            /\ invoked' = FALSE
            /\ evicted' = NoKey
            /\ UNCHANGED <<file_cache, hist, pending>>
       ELSE LET r == get_file_entry(path)
            IN  IF r.status = "KeyError"
                THEN /\ ret' = [kind |-> "cached", op |-> op, path |-> path,
                                status |-> "KeyError", value |-> NoValue]
                     /\ invoked' = FALSE
                     /\ evicted' = NoKey
                     /\ UNCHANGED <<file_cache, hist, pending>>
                ELSE LET n == EntryIndex(r.cache, r.key)
                         e == r.cache[n]
                         k == DerivedKind(op)
                         have == k \in DOMAIN e.derived
                         d == IF have THEN e.derived
                              ELSE e.derived @@ (k :> BackendResult(op, path, fs[path]))
                     IN  /\ file_cache' = [r.cache EXCEPT ![n].derived = d]
                         /\ hist' = Append(hist, [path |-> path, content |-> fs[path],
                                                  op |-> op, key |-> r.key,
                                                  value |-> d[k]])
                         /\ ret' = [kind |-> "cached", op |-> op, path |-> path,
                                    status |-> "ok", value |-> d[k]]
                         /\ invoked' = ~have
                         /\ evicted' = r.evicted
                         /\ pending' = NoPath
    /\ UNCHANGED <<fs, backend, max_files>>
    /\ UNCHANGED treeVars

\* get_function_body ... list_side_effects: delegated, never cached.  The
\* caller receives PassResult(op, path); the state keeps only its status.
PassResult(op, path) ==
    IF fs[path] = Missing
    THEN [status |-> "IOError", value |-> NoValue]
    ELSE [status |-> "ok", value |-> BackendResult(op, path, fs[path])]

\* a pass-through operation that looks the file up in the cache first
PassThrough_Cached(op, path) ==
    /\ ret = NoRet
    /\ path \in NextPaths
    /\ fs[path] # Missing
    /\ get_file_entry(path).status # "KeyError"
    /\ file_cache' = get_file_entry(path).cache
    /\ ret' = [kind |-> "pass", op |-> "none", path |-> "none",
               status |-> "ok", value |-> NoValue]
    /\ invoked' = TRUE
    /\ evicted' = NoKey
    /\ UNCHANGED <<fs, pending, backend, max_files, hist>>
    /\ UNCHANGED treeVars
PassThrough(op, path) ==
    /\ ret = NoRet
    /\ path \in NextPaths
    /\ ret' = [kind |-> "pass", op |-> "none", path |-> "none",
               status |-> PassResult(op, path).status, value |-> NoValue]
    /\ invoked' = TRUE
    /\ evicted' = NoKey
    /\ UNCHANGED <<fs, pending, backend, max_files, file_cache, hist>>
    /\ UNCHANGED treeVars

\* The caller takes the result; calls are synchronous, one at a time.
Return ==
    /\ ret # NoRet
    /\ ret' = NoRet
    /\ invoked' = FALSE
    /\ evicted' = NoKey
    /\ UNCHANGED <<fs, pending, backend, max_files, file_cache, hist>>
    /\ UNCHANGED treeVars

\* a write that also drops the entries the cache holds for the file
WriteFile_Invalidating(path, c) ==
    /\ ret = NoRet
    /\ fs[path] # c
    /\ path \in SeenPaths
    /\ c \in NextContents(path)
    /\ pending = NoPath
    /\ fs' = [fs EXCEPT ![path] = c]
    /\ pending' = path
    /\ file_cache' = SelectSeq(file_cache, LAMBDA e : e.file_path # path)
    /\ UNCHANGED <<backend, max_files, hist, ret, invoked, evicted>>
    /\ UNCHANGED treeVars
\* The environment rewrites a file between two calls.
WriteFile(path, c) ==
    /\ ret = NoRet
    /\ fs[path] # c
    /\ path \in SeenPaths
    /\ c \in NextContents(path)
    /\ pending = NoPath
    /\ fs' = [fs EXCEPT ![path] = c]
    /\ pending' = path
    /\ UNCHANGED <<backend, max_files, file_cache, hist, ret, invoked, evicted>>
    /\ UNCHANGED treeVars

NoSrc == <<>>
NoOut == [backend |-> "none", op |-> "none", name |-> "none"]

Init ==
    /\ fs = [p \in Paths |-> InitialContent]
    /\ pending = NoPath
    /\ backend = "TreeSitterAnalyzer"
    /\ max_files \in -1..MaxCap
    /\ file_cache = <<>>
    /\ hist = <<>>
    /\ ret = NoRet
    /\ invoked = FALSE
    /\ evicted = NoKey
    /\ src = NoSrc
    /\ out = NoOut

Next ==
    \/ \E op \in CachedOps, p \in Paths : CachedCall(op, p)
    \/ \E op \in PassOps, p \in Paths : PassThrough(op, p)
    \/ \E p \in Paths, c \in Contents : WriteFile(p, c)
    \/ Return

Spec == Init /\ [][Next]_vars

(***************************************************************************)
(* SpecCall: a cached call in its two steps.  _get_file_entry reads and    *)
(* hashes the file and finds or inserts the entry; when the entry lacks    *)
(* the kind asked, the wrapped analyzer then reads the file a second time  *)
(* (BaseAnalyzer._read_file).  The file can be missing, can hold bytes     *)
(* that are not UTF-8, and can be rewritten or removed between the steps.  *)
(* hist holds every call, with its outcome.                                *)
(***************************************************************************)
MaxCalls == 2      \* cached calls in one run
Rewritten == InitialContent + 1     \* the content after a change of the file
Undecodable == Rewritten + 1        \* bytes that content.decode('utf-8') rejects
FileStates == {Missing, InitialContent, Rewritten, Undecodable}
\* the wrapped analyzer's operation on what the file holds when it reads it
BackendRun(op, path) ==
    IF fs[path] = Missing THEN [status |-> "IOError", value |-> NoValue]
    ELSE IF fs[path] = Undecodable THEN [status |-> "UnicodeDecodeError", value |-> NoValue]
    ELSE [status |-> "ok", value |-> BackendResult(op, path, fs[path])]
\* an analyzer error that leaves a value in the entry's slot all the same
StoreDerived_Always(derived, kind, b) == derived @@ (kind :> b.value)
\* entry["derived"][kind] = ...: the assignment runs only when the call returned
StoreDerived(derived, kind, b) ==
    IF b.status = "ok" THEN derived @@ (kind :> b.value) ELSE derived
CallRecord(op, path, status, inv) ==
    [path |-> path, content |-> fs[path], op |-> op,
     key |-> CacheKey(path, sha256(fs[path])), status |-> status, invoked |-> inv]
Outcome(op, path, status, value) ==
    [kind |-> "cached", op |-> op, path |-> path, status |-> status, value |-> value]
\* a lookup that makes room in the cache before it reads the file
LookupEntry_EvictFirst(path) ==
    IF fs[path] = Missing
    THEN [status |-> "IOError", key |-> NoKey, evicted |-> NoKey,
          cache |-> IF NeedsEvict(file_cache) /\ file_cache # <<>>
                    THEN popitem(file_cache).rest ELSE file_cache]
    ELSE get_file_entry(path)
\* _get_file_entry on any file: open() raises before the cache is touched
LookupEntry(path) ==
    IF fs[path] = Missing
    THEN [status |-> "IOError", key |-> NoKey, evicted |-> NoKey, cache |-> file_cache]
    ELSE get_file_entry(path)
\* entry = self._get_file_entry(file_path), and the return of the stored
\* value when the entry holds the kind asked
BeginCall(op, path) ==
    /\ ret = NoRet
    /\ Len(hist) < MaxCalls
    /\ op \in NextOps /\ path \in NextPaths
    /\ pending \in {NoPath, path}
    /\ LET r == LookupEntry(path)
       IN  IF r.status \in {"IOError", "KeyError"}
           THEN /\ ret' = Outcome(op, path, r.status, NoValue)
                /\ hist' = Append(hist, CallRecord(op, path, r.status, FALSE))
                /\ file_cache' = r.cache
                /\ invoked' = FALSE
                /\ evicted' = NoKey
           ELSE LET e == r.cache[EntryIndex(r.cache, r.key)]
                    k == DerivedKind(op)
                IN  /\ file_cache' = r.cache
                    /\ evicted' = r.evicted
                    /\ invoked' = (k \notin DOMAIN e.derived)
                    /\ IF k \in DOMAIN e.derived
                       THEN /\ ret' = Outcome(op, path, "ok", e.derived[k])
                            /\ hist' = Append(hist, CallRecord(op, path, "ok", FALSE))
                       ELSE /\ ret' = Outcome(op, path, "in_backend", NoValue)
                            /\ hist' = Append(hist,
                                              CallRecord(op, path, "in_backend", TRUE))
    /\ pending' = NoPath
    /\ UNCHANGED <<fs, backend, max_files>>
    /\ UNCHANGED treeVars
\* self._analyzer.<op>(file_path) returns or raises; the entry the caller
\* holds is the one _get_file_entry left in last place
BackendReturns ==
    /\ ret.status = "in_backend"
    /\ LET b == BackendRun(ret.op, ret.path)
           n == Len(file_cache)
       IN  /\ file_cache' = [file_cache EXCEPT
                                 ![n].derived = StoreDerived(@, DerivedKind(ret.op), b)]
           /\ ret' = Outcome(ret.op, ret.path, b.status, b.value)
           /\ hist' = [hist EXCEPT ![Len(hist)].status = b.status]
    /\ pending' = NoPath
    /\ UNCHANGED <<fs, backend, max_files, invoked, evicted>>
    /\ UNCHANGED treeVars
\* the caller receives the value or the exception
CallReturns ==
    /\ ret.status # "in_backend"
    /\ Return
\* The environment rewrites or removes a file: between two calls the file the
\* next call reads, during a call the file the analyzer is about to read.
ExternalWrite(path, c) ==
    /\ fs[path] # c
    /\ pending = NoPath
    /\ \/ ret = NoRet /\ path \in NextPaths
       \/ ret.status = "in_backend" /\ path = ret.path
    /\ fs' = [fs EXCEPT ![path] = c]
    /\ pending' = path
    /\ UNCHANGED <<backend, max_files, file_cache, hist, ret, invoked, evicted>>
    /\ UNCHANGED treeVars
InitCall ==
    /\ fs \in [Paths -> {InitialContent}]
    /\ pending = NoPath
    /\ backend = "TreeSitterAnalyzer"
    /\ max_files \in 1..MaxCap
    /\ file_cache = <<>>
    /\ hist = <<>>
    /\ ret = NoRet
    /\ invoked = FALSE
    /\ evicted = NoKey
    /\ src = NoSrc
    /\ out = NoOut
NextCall ==
    \/ \E op \in CachedOps, p \in Paths : BeginCall(op, p)
    \/ BackendReturns
    \/ CallReturns
    \/ \E p \in Paths, c \in FileStates : ExternalWrite(p, c)
SpecCall == InitCall /\ [][NextCall]_vars

(***************************************************************************)
(* Properties of the cache                                                 *)
(***************************************************************************)
CachedOk == ret.kind = "cached" /\ ret.status = "ok"
LastLookup == hist[Len(hist)]
Distinct(n) == \A i, j \in 1..n : i # j => hist[i].path # hist[j].path
\* position of the latest lookup of key k among the first n lookups (0: none)
LastUse(k, n) ==
    LET S == {i \in 1..n : hist[i].key = k}
    IN  IF S = {} THEN 0 ELSE CHOOSE i \in S : \A j \in S : j <= i
FirstUse(k) ==
    LET S == {i \in 1..Len(hist) : hist[i].key = k}
    IN  IF S = {} THEN 0 ELSE CHOOSE i \in S : \A j \in S : i <= j

\* C1: a cached operation returns what the backend returns for the content
\* the file holds at the time of the call, never a result computed from an
\* older content.
C1_NoStaleResult ==
    CachedOk => ret.value = BackendResult(ret.op, ret.path, fs[ret.path])

\* a call has just returned for a file whose older content was looked up
\* with the same operation and is still resident
C1_Witness ==
    /\ CachedOk
    /\ \E i \in 1..(Len(hist) - 1) :
          /\ hist[i].path = ret.path /\ hist[i].op = ret.op
          /\ hist[i].content # fs[ret.path]
          /\ hist[i].key \in Keys(file_cache)

\* C2: after lookups of max_files + 1 distinct files on an empty cache the
\* first file's entry is gone and the other max_files entries are resident,
\* and the next cached call on the first file invokes the backend again.
C2_EvictAndRefetch ==
    max_files >= 1 =>
      /\ (Len(hist) = max_files + 1 /\ Distinct(max_files + 1)) =>
            /\ hist[1].key \notin Keys(file_cache)
            /\ \A i \in 2..(max_files + 1) : hist[i].key \in Keys(file_cache)
      /\ (/\ Len(hist) = max_files + 2 /\ Distinct(max_files + 1)
          /\ LastLookup.path = hist[1].path /\ CachedOk) => invoked

C2_Witness ==
    /\ max_files = 2 /\ Len(hist) = max_files + 2 /\ Distinct(max_files + 1)
    /\ LastLookup.key = hist[1].key /\ LastLookup.op = hist[1].op
    /\ CachedOk /\ invoked

\* C3: with max_files >= 1 the cache never holds more than max_files entries.
C3_Bounded == max_files >= 1 => Len(file_cache) <= max_files

C3_Witness ==
    /\ max_files >= 1 /\ evicted # NoKey /\ Len(file_cache) = max_files
    /\ \E i \in 1..Len(hist) : hist[i].content # InitialContent

\* C4: every completed lookup leaves its key in the most recently used place,
\* and a miss at full capacity removes exactly the entry whose latest lookup
\* is older than that of every other resident entry.
C4_StrictLru ==
    CachedOk =>
      /\ file_cache[Len(file_cache)].key = LastLookup.key
      /\ evicted # NoKey =>
            /\ invoked
            /\ evicted \notin Keys(file_cache)
            /\ Len(file_cache) = max_files
            /\ LastUse(evicted, Len(hist) - 1) > 0
            /\ \A k \in Keys(file_cache) \ {LastLookup.key} :
                  LastUse(evicted, Len(hist) - 1) < LastUse(k, Len(hist) - 1)

\* an eviction where least-recently-used and first-inserted differ
C4_Witness ==
    /\ CachedOk /\ evicted # NoKey
    /\ \E k \in Keys(file_cache) \ {LastLookup.key} : FirstUse(k) < FirstUse(evicted)

(***************************************************************************)
(* The C file under analysis (SpecTree)                                    *)
(*                                                                         *)
(* A file is its #include lines followed by function definitions.  Each    *)
(* definition takes one line for its header, one line per statement of its *)
(* body and one closing line "end: ; }" that holds the label the goto      *)
(* statements jump to.                                                     *)
(***************************************************************************)
MaxStmts == 2      \* statements in the whole file

Includes == <<"stdio.h", "stdlib.h", "unistd.h">>
FuncNames == <<"add", "main">>      \* the i-th definition of a file is FuncNames[i]
\* How the declarator of a definition is written:
\*   "plain"   int add(void) {          "pointer"  int *add(void) {
\*   "paren"   int (add)(void) {
DeclForms == {"plain", "pointer", "paren"}
\* The parameter declarations of a definition:
\*   int add(void)          int main(int argc, char **argv)
\* each with its type, the text of its declarator ("" without one) and the
\* declarators from the outermost to the identifier
Params(name) ==
    IF name = "main"
    THEN <<[type |-> "int", name |-> "argc", chain |-> <<"argc">>],
           [type |-> "char", name |-> "**argv", chain |-> <<"**argv", "*argv", "argv">>]>>
    ELSE <<[type |-> "void", name |-> "", chain |-> <<>>]>>
ParamText(name) ==
    IF name = "main" THEN <<"(", "int", "argc", ",", "char", "*", "*", "argv", ")">>
    ELSE <<"(void)">>
NoArg == "none"
ReturnStmt == [kind |-> "return", fn |-> NoArg, arg |-> NoArg]   \* return 0;
GotoStmt == [kind |-> "goto", fn |-> NoArg, arg |-> NoArg]       \* goto end;
Call(g, h) == [kind |-> "call", fn |-> g, arg |-> h]             \* g(..);  or  g(.., h());
\* the literal arguments a call of g is written with
LiteralArgs(g) ==
    CASE g = "malloc" -> <<"8">>
      [] g = "free" -> <<"0">>
      [] g = "write" -> <<"1", "0", "0">>
      [] g = "printf" -> <<"\"%d\"">>
      [] g = "__builtin_bswap16" -> <<"80">>
      [] OTHER -> <<>>
ClosingText == <<"end:", ";", "}">>
Stmts == {ReturnStmt, GotoStmt, Call("malloc", NoArg), Call("free", NoArg),
          Call("write", NoArg), Call("printf", "add")}
FuncDef(i, form, body) == [name |-> FuncNames[i], form |-> form, body |-> body]
\* the bodies of n statements
Bodies(n) == [1..n -> Stmts]
\* the files of one or two definitions that hold at most MaxStmts statements
Programs ==
    UNION {{<<FuncDef(1, f, b)>> : f \in DeclForms, b \in Bodies(n)} : n \in 0..MaxStmts}
    \cup UNION {{<<FuncDef(1, f1, b1), FuncDef(2, f2, b2)>> :
                    f1 \in DeclForms, b1 \in Bodies(n[1]),
                    f2 \in DeclForms, b2 \in Bodies(n[2])} :
                n \in {m \in (0..MaxStmts) \X (0..MaxStmts) : m[1] + m[2] <= MaxStmts}}

\* 1-indexed line of the header of the i-th definition, and of its k-th statement
RECURSIVE HeaderLine(_, _)
HeaderLine(prog, i) ==
    IF i = 1 THEN Len(Includes) + 1
    ELSE HeaderLine(prog, i - 1) + Len(prog[i - 1].body) + 2
StmtLine(prog, i, k) == HeaderLine(prog, i) + k
EndLine(prog, i) == HeaderLine(prog, i) + Len(prog[i].body) + 1

\* The lines of the file as text: a line is a sequence of tokens.
HeaderText(f) ==
    CASE f.form = "plain" -> <<"int", f.name>> \o ParamText(f.name) \o <<"{">>
      [] f.form = "pointer" -> <<"int", "*", f.name>> \o ParamText(f.name) \o <<"{">>
      [] f.form = "paren" -> <<"int", "(", f.name, ")">> \o ParamText(f.name) \o <<"{">>
StmtText(s) ==
    CASE s.kind = "return" -> <<"return", "0", ";">>
      [] s.kind = "goto" -> <<"goto", "end", ";">>
      [] s.kind = "call" /\ s.arg = NoArg ->
           <<s.fn, "(">> \o LiteralArgs(s.fn) \o <<")", ";">>
      [] s.kind = "call" /\ s.arg # NoArg ->
           <<s.fn, "(">> \o LiteralArgs(s.fn) \o <<s.arg, "(", ")", ")", ";">>
FuncLines(f) ==
    <<HeaderText(f)>> \o [k \in 1..Len(f.body) |-> StmtText(f.body[k])] \o <<ClosingText>>
\* the declarations that close every file, one per line: three types, the
\* prototype of a function defined elsewhere and a variable whose initializer
\* is a call
TypeDecls ==
    <<[kind |-> "struct", name |-> "point",
       text |-> <<"struct", "point", "{", "int", "x", ";", "}", ";">>],
      [kind |-> "enum", name |-> "color",
       text |-> <<"enum", "color", "{", "RED", "}", ";">>],
      [kind |-> "typedef", name |-> "myint",
       text |-> <<"typedef", "int", "myint", ";">>],
      [kind |-> "prototype", name |-> "helper",
       text |-> <<"int", "helper", "(void)", ";">>],
      [kind |-> "variable", name |-> "port",
       text |-> <<"int", "port", "=", "__builtin_bswap16", "(", "80", ")", ";">>]>>
TypeLine(prog, k) == EndLine(prog, Len(prog)) + k
RECURSIVE FuncsLines(_)
FuncsLines(prog) ==
    IF prog = <<>> THEN [i \in 1..Len(Includes) |-> <<"#include", Includes[i]>>]
    ELSE FuncsLines(SubSeq(prog, 1, Len(prog) - 1)) \o FuncLines(prog[Len(prog)])
FileLines(prog) == FuncsLines(prog) \o [k \in 1..Len(TypeDecls) |-> TypeDecls[k].text]

(***************************************************************************)
(* TreeSitterAnalyzer: the syntax tree                                     *)
(***************************************************************************)
\* A tree-sitter node: its grammar type, its text (a name for an identifier,
\* lines for a body), its 0-indexed start row, the field it fills in its
\* parent, and its children.
\* row is start_point[0]; end_row is end_point[0], the same row unless Spanning
TSNode(type, text, row, field, kids) ==
    [type |-> type, text |-> text, row |-> row, end_row |-> row, field |-> field,
     kids |-> kids]
Spanning(node, end_row) == [node EXCEPT !.end_row = end_row]
NoNode == TSNode("none", "", 0, "", <<>>)
child_by_field_name(node, name) ==
    LET S == {k \in 1..Len(node.kids) : node.kids[k].field = name}
    IN  IF S = {} THEN NoNode
        ELSE node.kids[CHOOSE k \in S : \A j \in S : k <= j]

TS_Literal(text, row) ==
    TSNode(IF text = "\"%d\"" THEN "string_literal" ELSE "number_literal",
           text, row, "", <<>>)
TS_Call(g, args, row) ==
    TSNode("call_expression", "", row, "",
           <<TSNode("identifier", g, row, "function", <<>>),
             TSNode("argument_list", "", row, "arguments",
                    [k \in 1..Len(LiteralArgs(g)) |-> TS_Literal(LiteralArgs(g)[k], row)]
                    \o args)>>)
TS_Label(row) ==
    TSNode("labeled_statement", "", row, "",
           <<TSNode("statement_identifier", "end", row, "label", <<>>),
             TSNode("expression_statement", "", row, "", <<>>)>>)
TS_Statement(s, row) ==
    CASE s.kind = "return" ->
           TSNode("return_statement", "", row, "",
                  <<TSNode("number_literal", "0", row, "", <<>>)>>)
      [] s.kind = "goto" ->
           TSNode("goto_statement", "", row, "",
                  <<TSNode("statement_identifier", "end", row, "label", <<>>)>>)
      [] s.kind = "call" ->
           TSNode("expression_statement", "", row, "",
                  <<TS_Call(s.fn,
                            IF s.arg = NoArg THEN <<>>
                            ELSE <<TS_Call(s.arg, <<>>, row)>>,
                            row)>>)
\* the declarator of a parameter: pointer declarators around an identifier
RECURSIVE TS_ParamDeclarator(_, _, _)
TS_ParamDeclarator(chain, row, field) ==
    IF Len(chain) = 1 THEN TSNode("identifier", chain[1], row, field, <<>>)
    ELSE TSNode("pointer_declarator", chain[1], row, field,
                <<TS_ParamDeclarator(Tail(chain), row, "declarator")>>)
TS_Parameter(p, row) ==
    TSNode("parameter_declaration", "", row, "",
           <<TSNode("primitive_type", p.type, row, "type", <<>>)>>
           \o (IF p.chain = <<>> THEN <<>>
               ELSE <<TS_ParamDeclarator(p.chain, row, "declarator")>>))
TS_Declarator(f, row) ==
    LET params == TSNode("parameter_list", "", row, "parameters",
                         [k \in 1..Len(Params(f.name)) |->
                             TS_Parameter(Params(f.name)[k], row)])
        ident(field) == TSNode("identifier", f.name, row, field, <<>>)
        fdecl(inner) == TSNode("function_declarator", "", row, "declarator",
                               <<inner, params>>)
    IN  CASE f.form = "plain" -> fdecl(ident("declarator"))
          [] f.form = "pointer" ->
               TSNode("pointer_declarator", "", row, "declarator",
                      <<fdecl(ident("declarator"))>>)
          [] f.form = "paren" ->
               fdecl(TSNode("parenthesized_declarator", "", row, "declarator",
                            <<ident("")>>))
BodyText(f) ==
    <<(<<"{">>)>> \o [k \in 1..Len(f.body) |-> StmtText(f.body[k])] \o <<ClosingText>>
TS_Function(prog, i) ==
    LET f == prog[i]
        row == HeaderLine(prog, i) - 1
        end_row == EndLine(prog, i) - 1
    IN  Spanning(
            TSNode("function_definition", "", row, "",
                   <<TSNode("primitive_type", "int", row, "type", <<>>),
                     TS_Declarator(f, row),
                     Spanning(
                         TSNode("compound_statement", BodyText(f), row, "body",
                                [k \in 1..Len(f.body) |-> TS_Statement(f.body[k], row + k)]
                                \o <<TS_Label(end_row)>>),
                         end_row)>>),
            end_row)
TS_TypeDecl(d, row) ==
    LET name == TSNode("type_identifier", d.name, row, "name", <<>>)
    IN  CASE d.kind = "struct" ->
               TSNode("struct_specifier", "", row, "",
                      <<name,
                        TSNode("field_declaration_list", "", row, "body",
                               <<TSNode("field_declaration", "", row, "",
                                        <<TSNode("primitive_type", "int", row, "type", <<>>),
                                          TSNode("field_identifier", "x", row, "declarator",
                                                 <<>>)>>)>>)>>)
          [] d.kind = "enum" ->
               TSNode("enum_specifier", "", row, "",
                      <<name,
                        TSNode("enumerator_list", "", row, "body",
                               <<TSNode("enumerator", "", row, "",
                                        <<TSNode("identifier", "RED", row, "name", <<>>)>>)>>)>>)
          [] d.kind = "typedef" ->
               TSNode("type_definition", "", row, "",
                      <<TSNode("primitive_type", "int", row, "type", <<>>),
                        TSNode("type_identifier", d.name, row, "declarator", <<>>)>>)
          [] d.kind = "prototype" ->
               TSNode("declaration", "", row, "",
                      <<TSNode("primitive_type", "int", row, "type", <<>>),
                        TSNode("function_declarator", "helper(void)", row, "declarator",
                               <<TSNode("identifier", d.name, row, "declarator", <<>>),
                                 TSNode("parameter_list", "(void)", row, "parameters",
                                        <<>>)>>)>>)
          [] d.kind = "variable" ->
               TSNode("declaration", "", row, "",
                      <<TSNode("primitive_type", "int", row, "type", <<>>),
                        TSNode("init_declarator", "port = __builtin_bswap16(80)", row,
                               "declarator",
                               <<TSNode("identifier", d.name, row, "declarator", <<>>),
                                 [TS_Call("__builtin_bswap16", <<>>, row)
                                     EXCEPT !.field = "value"]>>)>>)
\* self.parser.parse(content).root_node
TSParse(prog) ==
    Spanning(
        TSNode("translation_unit", "", 0, "",
               [i \in 1..Len(Includes) |->
                   TSNode("preproc_include", Includes[i], i - 1, "", <<>>)]
               \o [i \in 1..Len(prog) |-> TS_Function(prog, i)]
               \o [k \in 1..Len(TypeDecls) |-> TS_TypeDecl(TypeDecls[k], TypeLine(prog, k) - 1)]),
        TypeLine(prog, Len(TypeDecls)))

RECURSIVE get_function_name(_)
get_function_name(declarator) ==
    IF declarator.type = "identifier" THEN declarator
    ELSE IF declarator.type = "function_declarator"
         THEN get_function_name(child_by_field_name(declarator, "declarator"))
    ELSE IF declarator.type = "pointer_declarator"
         THEN get_function_name(child_by_field_name(declarator, "declarator"))
    ELSE NoNode

\* sorted(v) of a set of names: ascending code-point order
NameOrder ==
    <<"__bswap_16", "__builtin_bswap16", "add", "free", "main", "malloc", "printf", "send",
      "write">>
Rank(n) == CHOOSE k \in 1..Len(NameOrder) : NameOrder[k] = n
RECURSIVE sorted(_)
sorted(S) ==
    IF S = {} THEN <<>>
    ELSE LET m == CHOOSE x \in S : \A y \in S : Rank(x) <= Rank(y)
         IN  <<m>> \o sorted(S \ {m})

(***************************************************************************)
(* TreeSitterAnalyzer: the operations                                      *)
(***************************************************************************)
None == [some |-> FALSE, text |-> <<>>]
Some(t) == [some |-> TRUE, text |-> t]
Truthy(r) == r.some /\ r.text # <<>>
NoFunction == ""                 \* current_function = None
IsNode(n) == n.type # "none"
\* str.isupper(): no identifier of the files drawn here has an upper-case letter
isupper(text) == text \in {}
\* whether a function_definition node sets the walk active for function_name
TS_active(node, function_name) ==
    LET name_node == get_function_name(child_by_field_name(node, "declarator"))
    IN  IsNode(name_node) /\ name_node.text = function_name
\* fn.text of a call_expression whose function child is an identifier ("" if not)
TS_callee(node) ==
    LET fn == child_by_field_name(node, "function")
    IN  IF IsNode(fn) /\ fn.type = "identifier" THEN fn.text ELSE NoFunction

RECURSIVE TS_find_function(_, _), TS_find_in_children(_, _, _)
TS_find_function(node, function_name) ==
    LET declarator == child_by_field_name(node, "declarator")
        name_node == get_function_name(declarator)
        body == child_by_field_name(node, "body")
    IN  IF /\ node.type = "function_definition"
           /\ IsNode(declarator)
           /\ IsNode(name_node) /\ name_node.text = function_name
           /\ IsNode(body)
        THEN Some(body.text)
        ELSE TS_find_in_children(node.kids, 1, function_name)
TS_find_in_children(kids, k, function_name) ==
    IF k > Len(kids) THEN None
    ELSE LET result == TS_find_function(kids[k], function_name)
         IN  IF Truthy(result) THEN result
             ELSE TS_find_in_children(kids, k + 1, function_name)
TS_get_function_body(prog, function_name) ==
    TS_find_function(TSParse(prog), function_name)

\* Every walk below updates one accumulator shared by all its recursive calls.
\* Here a walk returns what the visit of a subtree adds to the accumulator: what
\* the node adds itself, then what its children add, in the order of the visit.
RECURSIVE SumSeq(_)
SumSeq(s) == IF s = <<>> THEN 0 ELSE Head(s) + SumSeq(Tail(s))
RECURSIVE Flatten(_)
Flatten(s) == IF s = <<>> THEN <<>> ELSE Head(s) \o Flatten(Tail(s))
\* sep.join(parts)
RECURSIVE join(_, _)
join(parts, sep) ==
    IF parts = <<>> THEN <<>>
    ELSE IF Len(parts) = 1 THEN parts[1]
    ELSE parts[1] \o sep \o join(Tail(parts), sep)
UnionOf(R, field) == UNION {R[k][field] : k \in 1..Len(R)}
AnyOf(R, field) == \E k \in 1..Len(R) : R[k][field]

\* The dict name -> set of callees, held as its key set and its (key, callee) pairs.
EmptyGraph == [keys |-> {}, edges |-> {}]
\* {k: sorted(v) for k, v in graph.items()}
sorted_items(graph) ==
    [k \in graph.keys |-> sorted({e[2] : e \in {d \in graph.edges : d[1] = k}})]
RECURSIVE TS_graph_traverse(_, _), TS_graph_children(_, _, _)
TS_graph_traverse(node, current_function0) ==
    LET name_node == get_function_name(child_by_field_name(node, "declarator"))
        enters == node.type = "function_definition" /\ IsNode(name_node)
        current_function == IF enters THEN name_node.text ELSE current_function0
        records == /\ node.type = "call_expression"
                   /\ current_function # NoFunction
                   /\ TS_callee(node) # NoFunction
        R == TS_graph_children(node.kids, 1, current_function)
    IN  [keys |-> (IF enters THEN {current_function} ELSE {}) \cup UnionOf(R, "keys"),
         edges |-> (IF records THEN {<<current_function, TS_callee(node)>>} ELSE {})
                   \cup UnionOf(R, "edges")]
TS_graph_children(kids, k, current_function) ==
    IF k > Len(kids) THEN <<>>
    ELSE <<TS_graph_traverse(kids[k], current_function)>>
         \o TS_graph_children(kids, k + 1, current_function)
TS_get_call_graph(prog) ==
    sorted_items(TS_graph_traverse(TSParse(prog), NoFunction))

\* The walk of a function-scoped query: active0 is the flag the caller passes,
\* the flag is recomputed at a function_definition, and a node that is not
\* active returns at once, without visiting its children.
TS_flag(node, active0, function_name) ==
    IF node.type = "function_definition" THEN TS_active(node, function_name)
    ELSE active0

NoDeps == [calls |-> {}, types |-> {}, macros |-> {}]
RECURSIVE TS_deps_traverse(_, _, _), TS_deps_children(_, _, _, _)
TS_deps_traverse(node, active0, function_name) ==
    LET active == TS_flag(node, active0, function_name)
        R == TS_deps_children(node.kids, 1, active, function_name)
    IN  IF ~active THEN NoDeps
        ELSE [calls |-> (IF node.type = "call_expression" /\ TS_callee(node) # NoFunction
                         THEN {TS_callee(node)} ELSE {}) \cup UnionOf(R, "calls"),
              types |-> (IF node.type = "type_identifier" THEN {node.text} ELSE {})
                        \cup UnionOf(R, "types"),
              macros |-> (IF node.type = "identifier" /\ isupper(node.text)
                          THEN {node.text} ELSE {}) \cup UnionOf(R, "macros")]
TS_deps_children(kids, k, active, function_name) ==
    IF k > Len(kids) THEN <<>>
    ELSE <<TS_deps_traverse(kids[k], active, function_name)>>
         \o TS_deps_children(kids, k + 1, active, function_name)
DepsResult(function_name, deps) ==
    [function |-> function_name, calls |-> sorted(deps.calls),
     types |-> sorted(deps.types), macros |-> sorted(deps.macros)]
TS_get_function_dependencies(prog, function_name) ==
    DepsResult(function_name, TS_deps_traverse(TSParse(prog), FALSE, function_name))

\* return_count is the number of return statements the walk has visited
NoSummary ==
    [allocates_memory |-> FALSE, frees_memory |-> FALSE, return_count |-> 0,
     uses_goto |-> FALSE]
RECURSIVE TS_summary_traverse(_, _, _), TS_summary_children(_, _, _, _)
TS_summary_traverse(node, active0, function_name) ==
    LET active == TS_flag(node, active0, function_name)
        name == IF node.type = "call_expression" THEN TS_callee(node) ELSE NoFunction
        R == TS_summary_children(node.kids, 1, active, function_name)
    IN  IF ~active THEN NoSummary
        ELSE [allocates_memory |-> name = "malloc" \/ AnyOf(R, "allocates_memory"),
              frees_memory |-> name = "free" \/ AnyOf(R, "frees_memory"),
              return_count |-> (IF node.type = "return_statement" THEN 1 ELSE 0)
                               + SumSeq([k \in 1..Len(R) |-> R[k].return_count]),
              uses_goto |-> node.type = "goto_statement" \/ AnyOf(R, "uses_goto")]
TS_summary_children(kids, k, active, function_name) ==
    IF k > Len(kids) THEN <<>>
    ELSE <<TS_summary_traverse(kids[k], active, function_name)>>
         \o TS_summary_children(kids, k + 1, active, function_name)
SummaryResult(function_name, summary) ==
    [function |-> function_name, allocates_memory |-> summary.allocates_memory,
     frees_memory |-> summary.frees_memory,
     multiple_returns |-> summary.return_count > 1, uses_goto |-> summary.uses_goto]
TS_summarize_function(prog, function_name) ==
    SummaryResult(function_name, TS_summary_traverse(TSParse(prog), FALSE, function_name))

RECURSIVE TS_errors_traverse(_, _, _), TS_errors_children(_, _, _, _)
TS_errors_traverse(node, active0, function_name) ==
    LET active == TS_flag(node, active0, function_name)
    IN  IF ~active THEN <<>>
        ELSE (IF node.type = "return_statement"
              THEN <<[line |-> node.row + 1, type |-> "return"]>> ELSE <<>>)
             \o (IF node.type = "goto_statement"
                 THEN <<[line |-> node.row + 1, type |-> "goto"]>> ELSE <<>>)
             \o Flatten(TS_errors_children(node.kids, 1, active, function_name))
TS_errors_children(kids, k, active, function_name) ==
    IF k > Len(kids) THEN <<>>
    ELSE <<TS_errors_traverse(kids[k], active, function_name)>>
         \o TS_errors_children(kids, k + 1, active, function_name)
TS_get_error_handling_paths(prog, function_name) ==
    TS_errors_traverse(TSParse(prog), FALSE, function_name)

io_calls == {"printf", "write", "send"}
NoEffects == [io |-> {}, allocates_memory |-> FALSE]
RECURSIVE TS_effects_traverse(_, _, _), TS_effects_children(_, _, _, _)
TS_effects_traverse(node, active0, function_name) ==
    LET active == TS_flag(node, active0, function_name)
        name == IF node.type = "call_expression" THEN TS_callee(node) ELSE NoFunction
        R == TS_effects_children(node.kids, 1, active, function_name)
    IN  IF ~active THEN NoEffects
        ELSE [io |-> (IF name \in io_calls THEN {name} ELSE {}) \cup UnionOf(R, "io"),
              allocates_memory |-> name = "malloc" \/ AnyOf(R, "allocates_memory")]
TS_effects_children(kids, k, active, function_name) ==
    IF k > Len(kids) THEN <<>>
    ELSE <<TS_effects_traverse(kids[k], active, function_name)>>
         \o TS_effects_children(kids, k + 1, active, function_name)
EffectsResult(effects) ==
    [io |-> sorted(effects.io), allocates_memory |-> effects.allocates_memory]
TS_list_side_effects(prog, function_name) ==
    EffectsResult(TS_effects_traverse(TSParse(prog), FALSE, function_name))

\* self._walk(node): the node, then the walk of each child
RECURSIVE TS_walk(_), TS_walk_children(_, _)
TS_walk(node) == <<node>> \o TS_walk_children(node.kids, 1)
TS_walk_children(kids, k) ==
    IF k > Len(kids) THEN <<>>
    ELSE TS_walk(kids[k]) \o TS_walk_children(kids, k + 1)
TS_find_symbol(prog, symbol) ==
    LET walk == TS_walk(TSParse(prog))
        Matches(node) == node.type = "identifier" /\ node.text = symbol
        found == SelectSeq(walk, Matches)
    IN  [symbol |-> symbol, lines |-> [k \in 1..Len(found) |-> found[k].row + 1]]

(***************************************************************************)
(* ClangAnalyzer: the cursor tree                                          *)
(***************************************************************************)
\* A libclang cursor: kind, spelling, the spelling of cursor.referenced
\* (NoFunction when it references nothing), extent.start.line (1-indexed,
\* also location.line), extent.end.line, is_definition() and children.
\* cursor.location.file.name: the file analysed, or a file it includes
TargetFile == "target.c"
HeaderFile == "header.h"
Cursor(kind, spelling, referenced, line, end_line, is_definition, kids) ==
    [kind |-> kind, spelling |-> spelling, referenced |-> referenced, line |-> line,
     end_line |-> end_line, is_definition |-> is_definition, file |-> TargetFile,
     kids |-> kids]
Leaf(kind, spelling, referenced, line) ==
    Cursor(kind, spelling, referenced, line, line, FALSE, <<>>)
\* a cursor of an included file, with the cursors below it
RECURSIVE InHeader(_)
InHeader(cursor) ==
    [cursor EXCEPT !.file = HeaderFile,
                   !.kids = [k \in 1..Len(cursor.kids) |-> InHeader(cursor.kids[k])]]
\* the prototypes the #include lines bring in
Prototypes == <<"printf", "malloc", "free", "write">>
\* what else the included files declare: a typedef, a struct, an enumeration
\* without a tag, an inline function that is defined in the header and an
\* extern variable
HeaderDecls ==
    <<Leaf("TYPEDEF_DECL", "size_t", NoFunction, 1),
      Cursor("STRUCT_DECL", "_IO_FILE", NoFunction, 2, 2, TRUE,
             <<Leaf("FIELD_DECL", "_flags", NoFunction, 2)>>),
      Cursor("ENUM_DECL", "", NoFunction, 3, 3, TRUE,
             <<Leaf("ENUM_CONSTANT_DECL", "_PC_LINK_MAX", NoFunction, 3)>>),
      Cursor("FUNCTION_DECL", "__bswap_16", "__bswap_16", 4, 4, TRUE,
             <<Cursor("COMPOUND_STMT", "", NoFunction, 4, 4, FALSE,
                      <<Cursor("RETURN_STMT", "", NoFunction, 4, 4, FALSE,
                               <<Cursor("CALL_EXPR", "__builtin_bswap16", "__builtin_bswap16",
                                        4, 4, FALSE, <<>>)>>)>>)>>),
      Leaf("VAR_DECL", "stdin", NoFunction, 5)>>
Clang_Literal(text, line) ==
    IF text = "\"%d\""
    THEN Cursor("UNEXPOSED_EXPR", "", NoFunction, line, line, FALSE,
                <<Leaf("STRING_LITERAL", text, NoFunction, line)>>)
    ELSE Leaf("INTEGER_LITERAL", "", NoFunction, line)
Clang_Call(g, args, line) ==
    Cursor("CALL_EXPR", g, g, line, line, FALSE,
           <<Cursor("UNEXPOSED_EXPR", g, g, line, line, FALSE,
                    <<Leaf("DECL_REF_EXPR", g, g, line)>>)>>
           \o [k \in 1..Len(LiteralArgs(g)) |-> Clang_Literal(LiteralArgs(g)[k], line)]
           \o args)
Clang_TypeDecl(d, line) ==
    CASE d.kind = "struct" ->
           Cursor("STRUCT_DECL", d.name, NoFunction, line, line, TRUE,
                  <<Leaf("FIELD_DECL", "x", NoFunction, line)>>)
      [] d.kind = "enum" ->
           Cursor("ENUM_DECL", d.name, NoFunction, line, line, TRUE,
                  <<Leaf("ENUM_CONSTANT_DECL", "RED", NoFunction, line)>>)
      [] d.kind = "typedef" -> Leaf("TYPEDEF_DECL", d.name, NoFunction, line)
      [] d.kind = "prototype" -> Leaf("FUNCTION_DECL", d.name, d.name, line)
      [] d.kind = "variable" ->
           Cursor("VAR_DECL", d.name, NoFunction, line, line, TRUE,
                  <<Clang_Call("__builtin_bswap16", <<>>, line)>>)
Clang_Statement(s, line) ==
    CASE s.kind = "return" ->
           Cursor("RETURN_STMT", "", NoFunction, line, line, FALSE,
                  <<Leaf("INTEGER_LITERAL", "", NoFunction, line)>>)
      [] s.kind = "goto" ->
           Cursor("GOTO_STMT", "", NoFunction, line, line, FALSE,
                  <<Leaf("LABEL_REF", "end", "end", line)>>)
      [] s.kind = "call" ->
           Clang_Call(s.fn,
                      IF s.arg = NoArg THEN <<>> ELSE <<Clang_Call(s.arg, <<>>, line)>>,
                      line)
Clang_Function(prog, i) ==
    LET f == prog[i]
        line == HeaderLine(prog, i)
        last == EndLine(prog, i)
        named == SelectSeq(Params(f.name), LAMBDA p : p.chain # <<>>)
    IN  Cursor("FUNCTION_DECL", f.name, f.name, line, last, TRUE,
               [k \in 1..Len(named) |->
                   Leaf("PARM_DECL", named[k].chain[Len(named[k].chain)], NoFunction, line)]
               \o
               <<Cursor("COMPOUND_STMT", "", NoFunction, line, last, FALSE,
                        [k \in 1..Len(f.body) |-> Clang_Statement(f.body[k], line + k)]
                        \o <<Cursor("LABEL_STMT", "end", NoFunction, last, last, FALSE,
                                    <<Leaf("NULL_STMT", "", NoFunction, last)>>)>>)>>)
\* self._index.parse(file_path, args=self._compile_args).cursor
ClangParse(prog) ==
    Cursor("TRANSLATION_UNIT", "file", NoFunction, 0, 0, FALSE,
           [i \in 1..Len(HeaderDecls) |-> InHeader(HeaderDecls[i])]
           \o [i \in 1..Len(Prototypes) |->
                  InHeader(Leaf("FUNCTION_DECL", Prototypes[i], Prototypes[i],
                                Len(HeaderDecls) + i))]
           \o [i \in 1..Len(prog) |-> Clang_Function(prog, i)]
           \o [k \in 1..Len(TypeDecls) |-> Clang_TypeDecl(TypeDecls[k], TypeLine(prog, k))])
RECURSIVE walk_preorder(_), walk_children(_, _)
walk_preorder(cursor) == <<cursor>> \o walk_children(cursor.kids, 1)
walk_children(kids, k) ==
    IF k > Len(kids) THEN <<>>
    ELSE walk_preorder(kids[k]) \o walk_children(kids, k + 1)

(***************************************************************************)
(* ClangAnalyzer: the operations                                           *)
(***************************************************************************)
IsDefinition(cursor) == cursor.kind = "FUNCTION_DECL" /\ cursor.is_definition
Clang_get_function_body(prog, function_name) ==
    LET walk == walk_preorder(ClangParse(prog))
        S == {k \in 1..Len(walk) :
                 IsDefinition(walk[k]) /\ walk[k].spelling = function_name}
    IN  IF S = {} THEN None
        ELSE LET cursor == walk[CHOOSE k \in S : \A j \in S : k <= j]
             IN  Some(SubSeq(FileLines(prog), cursor.line, cursor.end_line))

\* for cursor in tu.cursor.walk_preorder(): current_function is the spelling of
\* the latest function definition the loop has met, whatever its subtree.
Clang_current_function(walk, k) ==
    LET D == {j \in 1..k : IsDefinition(walk[j])}
    IN  IF D = {} THEN NoFunction
        ELSE walk[CHOOSE j \in D : \A i \in D : i <= j].spelling
Clang_get_call_graph(prog) ==
    LET walk == walk_preorder(ClangParse(prog))
        calls == {k \in 1..Len(walk) :
                     /\ ~IsDefinition(walk[k])
                     /\ walk[k].kind = "CALL_EXPR"
                     /\ Clang_current_function(walk, k) # NoFunction
                     /\ walk[k].referenced # NoFunction}
    IN  sorted_items(
            [keys |-> {walk[k].spelling : k \in {j \in 1..Len(walk) : IsDefinition(walk[j])}},
             edges |-> {<<Clang_current_function(walk, k), walk[k].referenced>> : k \in calls}])

\* The walk of a function-scoped query: the flag is recomputed at a function
\* definition; a cursor that is not active is not inspected, but its
\* children are still visited.
Clang_flag(cursor, active0, function_name) ==
    IF IsDefinition(cursor) THEN cursor.spelling = function_name ELSE active0
Clang_called(cursor) ==
    IF cursor.kind = "CALL_EXPR" THEN cursor.referenced ELSE NoFunction

RECURSIVE Clang_deps_traverse(_, _, _), Clang_deps_children(_, _, _, _)
Clang_deps_traverse(cursor, active0, function_name) ==
    LET active == Clang_flag(cursor, active0, function_name)
        R == Clang_deps_children(cursor.kids, 1, active, function_name)
    IN  [calls |-> (IF active /\ Clang_called(cursor) # NoFunction
                    THEN {cursor.referenced} ELSE {}) \cup UnionOf(R, "calls"),
         types |-> (IF active /\ cursor.kind = "TYPE_REF" THEN {cursor.spelling} ELSE {})
                   \cup UnionOf(R, "types"),
         macros |-> (IF active /\ cursor.kind = "DECL_REF_EXPR" /\ isupper(cursor.spelling)
                     THEN {cursor.spelling} ELSE {}) \cup UnionOf(R, "macros")]
Clang_deps_children(kids, k, active, function_name) ==
    IF k > Len(kids) THEN <<>>
    ELSE <<Clang_deps_traverse(kids[k], active, function_name)>>
         \o Clang_deps_children(kids, k + 1, active, function_name)
Clang_get_function_dependencies(prog, function_name) ==
    DepsResult(function_name, Clang_deps_traverse(ClangParse(prog), FALSE, function_name))

RECURSIVE Clang_summary_traverse(_, _, _), Clang_summary_children(_, _, _, _)
Clang_summary_traverse(cursor, active0, function_name) ==
    LET active == Clang_flag(cursor, active0, function_name)
        name == Clang_called(cursor)
        R == Clang_summary_children(cursor.kids, 1, active, function_name)
    IN  [allocates_memory |-> (active /\ name = "malloc") \/ AnyOf(R, "allocates_memory"),
         frees_memory |-> (active /\ name = "free") \/ AnyOf(R, "frees_memory"),
         return_count |-> (IF active /\ cursor.kind = "RETURN_STMT" THEN 1 ELSE 0)
                          + SumSeq([k \in 1..Len(R) |-> R[k].return_count]),
         uses_goto |-> (active /\ cursor.kind = "GOTO_STMT") \/ AnyOf(R, "uses_goto")]
Clang_summary_children(kids, k, active, function_name) ==
    IF k > Len(kids) THEN <<>>
    ELSE <<Clang_summary_traverse(kids[k], active, function_name)>>
         \o Clang_summary_children(kids, k + 1, active, function_name)
Clang_summarize_function(prog, function_name) ==
    SummaryResult(function_name,
                  Clang_summary_traverse(ClangParse(prog), FALSE, function_name))

RECURSIVE Clang_errors_traverse(_, _, _), Clang_errors_children(_, _, _, _)
Clang_errors_traverse(cursor, active0, function_name) ==
    LET active == Clang_flag(cursor, active0, function_name)
    IN  (IF active /\ cursor.kind = "RETURN_STMT"
         THEN <<[line |-> cursor.line, type |-> "return"]>> ELSE <<>>)
        \o (IF active /\ cursor.kind = "GOTO_STMT"
            THEN <<[line |-> cursor.line, type |-> "goto"]>> ELSE <<>>)
        \o Flatten(Clang_errors_children(cursor.kids, 1, active, function_name))
Clang_errors_children(kids, k, active, function_name) ==
    IF k > Len(kids) THEN <<>>
    ELSE <<Clang_errors_traverse(kids[k], active, function_name)>>
         \o Clang_errors_children(kids, k + 1, active, function_name)
Clang_get_error_handling_paths(prog, function_name) ==
    Clang_errors_traverse(ClangParse(prog), FALSE, function_name)

RECURSIVE Clang_effects_traverse(_, _, _), Clang_effects_children(_, _, _, _)
Clang_effects_traverse(cursor, active0, function_name) ==
    LET active == Clang_flag(cursor, active0, function_name)
        name == Clang_called(cursor)
        R == Clang_effects_children(cursor.kids, 1, active, function_name)
    IN  [io |-> (IF active /\ name \in io_calls THEN {name} ELSE {}) \cup UnionOf(R, "io"),
         allocates_memory |-> (active /\ name = "malloc") \/ AnyOf(R, "allocates_memory")]
Clang_effects_children(kids, k, active, function_name) ==
    IF k > Len(kids) THEN <<>>
    ELSE <<Clang_effects_traverse(kids[k], active, function_name)>>
         \o Clang_effects_children(kids, k + 1, active, function_name)
Clang_list_side_effects(prog, function_name) ==
    EffectsResult(Clang_effects_traverse(ClangParse(prog), FALSE, function_name))

Clang_find_symbol(prog, symbol) ==
    LET walk == walk_preorder(ClangParse(prog))
        Matches(cursor) == cursor.spelling = symbol
        found == SelectSeq(walk, Matches)
    IN  [symbol |-> symbol, lines |-> [k \in 1..Len(found) |-> found[k].line]]

(***************************************************************************)
(* list_functions and analyze_file: the functions, structs, enums and      *)
(* typedefs of the parsed file.  A FunctionInfo of the clang backend is     *)
(* held by its name and lines, one of the tree-sitter backend also by its  *)
(* return type, parameters and signature (a text held as its pieces).      *)
(* Each traverse visits the nodes in the order of _walk.                   *)
(***************************************************************************)
FunctionInfo(name, start_line, end_line) ==
    [name |-> name, start_line |-> start_line, end_line |-> end_line]
\* <<>> for None
TS_parse_function(node) ==
    LET declarator == child_by_field_name(node, "declarator")
        name_node == get_function_name(declarator)
        type_node == child_by_field_name(node, "type")
        return_type == IF IsNode(type_node) THEN type_node.text ELSE "void"
        params_node == child_by_field_name(declarator, "parameters")
        found == IF declarator.type = "function_declarator" /\ IsNode(params_node)
                 THEN SelectSeq(params_node.kids,
                                LAMBDA param : param.type = "parameter_declaration")
                 ELSE <<>>
        TextOf(n) == IF IsNode(n) THEN n.text ELSE ""
        parameters == [k \in 1..Len(found) |->
                          [type |-> TextOf(child_by_field_name(found[k], "type")),
                           name |-> TextOf(child_by_field_name(found[k], "declarator"))]]
        signature == <<return_type, " ", name_node.text, "(">>
                     \o join([k \in 1..Len(parameters) |->
                                 <<parameters[k].type, " ", parameters[k].name>>],
                             <<", ">>)
                     \o <<")">>
    IN  IF ~IsNode(declarator) THEN <<>>
        ELSE IF ~IsNode(name_node) THEN <<>>
        ELSE <<[name |-> name_node.text, signature |-> signature,
                start_line |-> node.row + 1, end_line |-> node.end_row + 1,
                return_type |-> return_type, parameters |-> parameters]>>
TS_extract_functions(tree) ==
    LET walk == TS_walk(tree)
    IN  Flatten([k \in 1..Len(walk) |->
                    IF walk[k].type = "function_definition" THEN TS_parse_function(walk[k])
                    ELSE <<>>])
TS_extract_structs(tree) ==
    LET Named(node) ==
            node.type = "struct_specifier" /\ IsNode(child_by_field_name(node, "name"))
        found == SelectSeq(TS_walk(tree), Named)
    IN  [k \in 1..Len(found) |->
            [name |-> child_by_field_name(found[k], "name").text,
             line |-> found[k].row + 1, end_line |-> found[k].end_row + 1]]
TS_extract_enums(tree) ==
    LET Named(node) ==
            node.type = "enum_specifier" /\ IsNode(child_by_field_name(node, "name"))
        found == SelectSeq(TS_walk(tree), Named)
    IN  [k \in 1..Len(found) |->
            [name |-> child_by_field_name(found[k], "name").text, line |-> found[k].row + 1]]
TS_extract_typedefs(tree) ==
    LET Declared(node) ==
            node.type = "type_definition" /\ IsNode(child_by_field_name(node, "declarator"))
        found == SelectSeq(TS_walk(tree), Declared)
    IN  [k \in 1..Len(found) |->
            [name |-> child_by_field_name(found[k], "declarator").text,
             line |-> found[k].row + 1]]
\* list_functions numbering the lines from 0
ListFunctions_ZeroIndexed(prog) ==
    LET fns == TS_extract_functions(TSParse(prog))
    IN  [k \in 1..Len(fns) |->
            FunctionInfo(fns[k].name, fns[k].start_line - 1, fns[k].end_line - 1)]
TS_list_functions(prog) == TS_extract_functions(TSParse(prog))
TS_analyze_file(prog) ==
    LET tree == TSParse(prog)
    IN  [functions |-> TS_extract_functions(tree), structs |-> TS_extract_structs(tree),
         enums |-> TS_extract_enums(tree), typedefs |-> TS_extract_typedefs(tree)]

Clang_parse_function(cursor) == FunctionInfo(cursor.spelling, cursor.line, cursor.end_line)
\* list_functions without the test of cursor.location.file
ListFunctions_AnyFile(prog) ==
    LET found == SelectSeq(walk_preorder(ClangParse(prog)), IsDefinition)
    IN  [k \in 1..Len(found) |-> Clang_parse_function(found[k])]
Clang_list_functions(prog) ==
    LET Kept(cursor) == IsDefinition(cursor) /\ cursor.file = TargetFile
        found == SelectSeq(walk_preorder(ClangParse(prog)), Kept)
    IN  [k \in 1..Len(found) |-> Clang_parse_function(found[k])]
Clang_extract_structs(tu) ==
    LET Kept(cursor) ==
            cursor.kind = "STRUCT_DECL" /\ cursor.is_definition /\ cursor.file = TargetFile
        found == SelectSeq(walk_preorder(tu), Kept)
    IN  [k \in 1..Len(found) |-> [name |-> found[k].spelling, line |-> found[k].line]]
Clang_extract_enums(tu) ==
    LET Kept(cursor) == cursor.kind = "ENUM_DECL" /\ cursor.file = TargetFile
        found == SelectSeq(walk_preorder(tu), Kept)
    IN  [k \in 1..Len(found) |-> [name |-> found[k].spelling, line |-> found[k].line]]
Clang_extract_typedefs(tu) ==
    LET Kept(cursor) == cursor.kind = "TYPEDEF_DECL" /\ cursor.file = TargetFile
        found == SelectSeq(walk_preorder(tu), Kept)
    IN  [k \in 1..Len(found) |-> [name |-> found[k].spelling, line |-> found[k].line]]
Clang_analyze_file(prog) ==
    LET tu == ClangParse(prog)
    IN  [functions |-> Clang_list_functions(prog), structs |-> Clang_extract_structs(tu),
         enums |-> Clang_extract_enums(tu), typedefs |-> Clang_extract_typedefs(tu)]

(***************************************************************************)
(* SpecTree: one backend, one file, the operations applied to it           *)
(***************************************************************************)
QueryNames == {"add", "main", "nonexistent"}
IsTS == backend = "TreeSitterAnalyzer"
Answer(op, name, value) == [backend |-> backend, op |-> op, name |-> name, value |-> value]
\* An operation keeps nothing between two calls (it reads and parses the file
\* again each time), so a run asks one query of the file it drew.
Query(op, name, value) ==
    /\ src # NoSrc
    /\ out = NoOut
    /\ out' = Answer(op, name, value)
    /\ UNCHANGED <<backend, src>>
    /\ UNCHANGED cacheVars
get_function_body(function_name) ==
    Query("get_function_body", function_name,
          IF IsTS THEN TS_get_function_body(src, function_name)
          ELSE Clang_get_function_body(src, function_name))
get_call_graph ==
    Query("get_call_graph", NoFunction,
          IF IsTS THEN TS_get_call_graph(src) ELSE Clang_get_call_graph(src))
get_function_dependencies(function_name) ==
    Query("get_function_dependencies", function_name,
          IF IsTS THEN TS_get_function_dependencies(src, function_name)
          ELSE Clang_get_function_dependencies(src, function_name))
summarize_function(function_name) ==
    Query("summarize_function", function_name,
          IF IsTS THEN TS_summarize_function(src, function_name)
          ELSE Clang_summarize_function(src, function_name))
get_error_handling_paths(function_name) ==
    Query("get_error_handling_paths", function_name,
          IF IsTS THEN TS_get_error_handling_paths(src, function_name)
          ELSE Clang_get_error_handling_paths(src, function_name))
list_side_effects(function_name) ==
    Query("list_side_effects", function_name,
          IF IsTS THEN TS_list_side_effects(src, function_name)
          ELSE Clang_list_side_effects(src, function_name))

SymbolNames == {"add", "main", "malloc", "printf", "nonexistent"}
find_symbol(symbol) ==
    Query("find_symbol", symbol,
          IF IsTS THEN TS_find_symbol(src, symbol) ELSE Clang_find_symbol(src, symbol))

\* list_globals: the children of the root that are `declaration` nodes with a
\* declarator (tree-sitter); the children of the translation unit that are
\* variable declarations (clang: each of them has the unit as semantic parent)
TS_list_globals(prog) ==
    LET Kept(node) ==
            node.type = "declaration" /\ IsNode(child_by_field_name(node, "declarator"))
        found == SelectSeq(TSParse(prog).kids, Kept)
    IN  [k \in 1..Len(found) |->
            [name |-> child_by_field_name(found[k], "declarator").text,
             line |-> found[k].row + 1]]
Clang_list_globals(prog) ==
    LET Kept(cursor) == cursor.kind = "VAR_DECL"
        found == SelectSeq(ClangParse(prog).kids, Kept)
    IN  [k \in 1..Len(found) |-> [name |-> found[k].spelling, line |-> found[k].line]]
list_globals ==
    Query("list_globals", "none",
          IF IsTS THEN TS_list_globals(src) ELSE Clang_list_globals(src))

list_functions ==
    Query("list_functions", "none",
          IF IsTS THEN TS_list_functions(src) ELSE Clang_list_functions(src))
\* analyze_file, as far as what it takes from the parsed file goes: functions,
\* structs, enums and typedefs (SpecLines has what it takes from the lines)
analyze_file ==
    Query("analyze_file", "none",
          IF IsTS THEN TS_analyze_file(src) ELSE Clang_analyze_file(src))
InitTree ==
    /\ fs = [p \in Paths |-> InitialContent]
    /\ pending = NoPath
    /\ backend \in Backends
    /\ max_files = MaxCap
    /\ file_cache = <<>>
    /\ hist = <<>>
    /\ ret = NoRet
    /\ invoked = FALSE
    /\ evicted = NoKey
    /\ src \in Programs
    /\ out = NoOut
NextTree ==
    \/ \E n \in QueryNames : get_function_body(n)
    \/ get_call_graph
    \/ \E n \in QueryNames : get_function_dependencies(n)
    \/ \E n \in QueryNames : summarize_function(n)
    \/ \E n \in QueryNames : get_error_handling_paths(n)
    \/ \E n \in QueryNames : list_side_effects(n)
    \/ \E n \in SymbolNames : find_symbol(n)
    \/ list_functions
    \/ analyze_file
    \/ list_globals
SpecTree == InitTree /\ [][NextTree]_vars
\* the two operations that report the functions of a file, on the same files
NextList ==
    \/ list_functions
    \/ analyze_file
SpecList == InitTree /\ [][NextList]_vars

(***************************************************************************)
(* SpecLines: the preprocessor directives of a file given by its text      *)
(*                                                                         *)
(* A string is the sequence of its characters.  src is the list            *)
(* content.decode('utf-8').split('\n') of the file.                        *)
(***************************************************************************)
MaxTail == 4       \* characters of a line after its first word

Whitespace == {" ", "\t"}
RECURSIVE lstrip(_)
lstrip(s) == IF s # <<>> /\ Head(s) \in Whitespace THEN lstrip(Tail(s)) ELSE s
RECURSIVE rstrip(_)
rstrip(s) ==
    IF s # <<>> /\ s[Len(s)] \in Whitespace THEN rstrip(SubSeq(s, 1, Len(s) - 1)) ELSE s
\* str.strip()
strip(s) == rstrip(lstrip(s))
\* str.startswith(prefix)
startswith(s, prefix) == Len(s) >= Len(prefix) /\ SubSeq(s, 1, Len(prefix)) = prefix
\* str.find(c): 0-indexed position of the first c, -1 when there is none
find(s, c) ==
    LET S == {k \in 1..Len(s) : s[k] = c}
    IN  IF S = {} THEN -1 ELSE (CHOOSE k \in S : \A j \in S : k <= j) - 1
\* s[a:] and s[:b] with 0-indexed bounds
SliceFrom(s, a) == SubSeq(s, a + 1, Len(s))
SliceTo(s, b) == SubSeq(s, 1, b)
\* min(S)
Minimum(S) == CHOOSE x \in S : \A y \in S : x <= y

TypeInclude == <<"i", "n", "c", "l", "u", "d", "e">>
TypeDefine == <<"d", "e", "f", "i", "n", "e">>
KwInclude == <<"#", "i", "n", "c", "l", "u", "d", "e">>
KwDefine == <<"#", "d", "e", "f", "i", "n", "e">>
\* the keywords with '#if' tried first
ConditionalKeywords_IfFirst ==
    <<<<"#", "i", "f">>, <<"#", "i", "f", "d", "e", "f">>, <<"#", "i", "f", "n", "d", "e", "f">>,
      <<"#", "e", "l", "i", "f">>, <<"#", "e", "l", "s", "e">>, <<"#", "e", "n", "d", "i", "f">>>>
ConditionalKeywords == <<<<"#", "i", "f", "d", "e", "f">>, <<"#", "i", "f", "n", "d", "e", "f">>,
                         <<"#", "i", "f">>, <<"#", "e", "l", "i", "f">>,
                         <<"#", "e", "l", "s", "e">>, <<"#", "e", "n", "d", "i", "f">>>>
Directive(type, content, line, value) ==
    [type |-> type, content |-> content, line |-> line, value |-> value]
\* the directives of the lines 1..n for which One(i) is not NoDirective, in order
NoDirective == Directive("none", <<>>, 0, None)
RECURSIVE Collect(_, _)
Collect(found, n) ==
    IF n = 0 THEN <<>>
    ELSE Collect(found, n - 1) \o (IF found[n] = NoDirective THEN <<>> ELSE <<found[n]>>)

(***************************************************************************)
(* TreeSitterAnalyzer: directives                                          *)
(***************************************************************************)
TS_extract_includes(lines) ==
    Collect([i \in 1..Len(lines) |->
                LET stripped == strip(lines[i])
                IN  IF startswith(stripped, KwInclude)
                    THEN Directive(TypeInclude, stripped, i, None)
                    ELSE NoDirective],
            Len(lines))
\* _extract_defines numbering the lines from 0
ExtractDefines_ZeroIndexed(lines) ==
    LET define(line, i) ==
            LET stripped == strip(line)
                rest == strip(SliceFrom(stripped, 7))
                delimiters == {find(rest, " "), find(rest, "\t"), find(rest, "(")} \ {-1}
                end_idx == IF delimiters # {} THEN Minimum(delimiters) ELSE Len(rest)
                name == IF end_idx > 0 THEN SliceTo(rest, end_idx) ELSE rest
                value == IF end_idx < Len(rest) THEN Some(strip(SliceFrom(rest, end_idx))) ELSE None
            IN  IF startswith(stripped, KwDefine) THEN Directive(TypeDefine, name, i - 1, value)
                ELSE NoDirective
    IN  Collect([i \in 1..Len(lines) |-> define(lines[i], i)], Len(lines))
TS_extract_defines(lines) ==
    LET define(line, i) ==
            LET stripped == strip(line)
                rest == strip(SliceFrom(stripped, 7))
                delimiters == {find(rest, " "), find(rest, "\t"), find(rest, "(")} \ {-1}
                end_idx == IF delimiters # {} THEN Minimum(delimiters) ELSE Len(rest)
                name == IF end_idx > 0 THEN SliceTo(rest, end_idx) ELSE rest
                value == IF end_idx < Len(rest) THEN Some(strip(SliceFrom(rest, end_idx))) ELSE None
            IN  IF startswith(stripped, KwDefine) THEN Directive(TypeDefine, name, i, value)
                ELSE NoDirective
    IN  Collect([i \in 1..Len(lines) |-> define(lines[i], i)], Len(lines))
\* for directive in [...]: if stripped.startswith(directive): ...; break
TS_extract_conditionals(lines) ==
    LET conditional(line, i) ==
            LET stripped == strip(line)
                S == {k \in 1..Len(ConditionalKeywords) : startswith(stripped, ConditionalKeywords[k])}
            IN  IF S = {} THEN NoDirective
                ELSE Directive(SliceFrom(ConditionalKeywords[Minimum(S)], 1), stripped, i, None)
    IN  Collect([i \in 1..Len(lines) |-> conditional(lines[i], i)], Len(lines))
TS_get_preprocessor_directives(lines) ==
    [includes |-> TS_extract_includes(lines), defines |-> TS_extract_defines(lines),
     conditionals |-> TS_extract_conditionals(lines)]
\* the includes, defines and conditionals fields of analyze_file's result
TS_analyze_directives(lines) ==
    [includes |-> TS_extract_includes(lines), defines |-> TS_extract_defines(lines),
     conditionals |-> TS_extract_conditionals(lines)]

(***************************************************************************)
(* ClangAnalyzer: directives                                               *)
(***************************************************************************)
\* _extract_includes_from_lines keeping the line as written
ExtractIncludes_Unstripped(lines) ==
    Collect([i \in 1..Len(lines) |->
                IF startswith(strip(lines[i]), KwInclude)
                THEN Directive(TypeInclude, lines[i], i, None)
                ELSE NoDirective],
            Len(lines))
Clang_extract_includes_from_lines(lines) ==
    Collect([i \in 1..Len(lines) |->
                LET stripped == strip(lines[i])
                IN  IF startswith(stripped, KwInclude)
                    THEN Directive(TypeInclude, stripped, i, None)
                    ELSE NoDirective],
            Len(lines))
Clang_extract_defines_from_lines(lines) ==
    LET define(line, i) ==
            LET stripped == strip(line)
                rest == strip(SliceFrom(stripped, 7))
                delimiters == {find(rest, " "), find(rest, "\t"), find(rest, "(")} \ {-1}
                end_idx == IF delimiters # {} THEN Minimum(delimiters) ELSE Len(rest)
                name == IF end_idx > 0 THEN SliceTo(rest, end_idx) ELSE rest
                value == IF end_idx < Len(rest) THEN Some(strip(SliceFrom(rest, end_idx))) ELSE None
            IN  IF startswith(stripped, KwDefine) THEN Directive(TypeDefine, name, i, value)
                ELSE NoDirective
    IN  Collect([i \in 1..Len(lines) |-> define(lines[i], i)], Len(lines))
Clang_extract_conditionals(lines) ==
    LET conditional(line, i) ==
            LET stripped == strip(line)
                S == {k \in 1..Len(ConditionalKeywords) : startswith(stripped, ConditionalKeywords[k])}
            IN  IF S = {} THEN NoDirective
                ELSE Directive(SliceFrom(ConditionalKeywords[Minimum(S)], 1), stripped, i, None)
    IN  Collect([i \in 1..Len(lines) |-> conditional(lines[i], i)], Len(lines))
Clang_get_preprocessor_directives(lines) ==
    [includes |-> Clang_extract_includes_from_lines(lines),
     defines |-> Clang_extract_defines_from_lines(lines),
     conditionals |-> Clang_extract_conditionals(lines)]
Clang_analyze_directives(lines) ==
    [includes |-> Clang_extract_includes_from_lines(lines),
     defines |-> Clang_extract_defines_from_lines(lines),
     conditionals |-> Clang_extract_conditionals(lines)]

(***************************************************************************)
(* The files of SpecLines: an optional first line, then one line made of   *)
(* optional indentation, a first word and up to MaxTail more characters.   *)
(***************************************************************************)
TailChars == {" ", "\t", "(", "A"}
Tails == UNION {[1..k -> TailChars] : k \in 0..MaxTail}
FirstWords ==
    {KwInclude, KwDefine, <<"A">>} \cup {ConditionalKeywords[k] : k \in 1..Len(ConditionalKeywords)}
SourceLines == {ind \o w \o t : ind \in {<<>>, <<" ">>}, w \in FirstWords, t \in Tails}
FileTexts ==
    {<<l>> : l \in SourceLines}
        \cup {<<f, l>> : f \in {<<>>, ConditionalKeywords[5]}, l \in SourceLines}

get_preprocessor_directives ==
    Query("get_preprocessor_directives", "none",
          IF IsTS THEN TS_get_preprocessor_directives(src)
          ELSE Clang_get_preprocessor_directives(src))
\* analyze_file, as far as its includes, defines and conditionals go
analyze_file_directives ==
    Query("analyze_file", "none",
          IF IsTS THEN TS_analyze_directives(src) ELSE Clang_analyze_directives(src))

InitLines ==
    /\ fs = [p \in Paths |-> InitialContent]
    /\ pending = NoPath
    /\ backend \in Backends
    /\ max_files = MaxCap
    /\ file_cache = <<>>
    /\ hist = <<>>
    /\ ret = NoRet
    /\ invoked = FALSE
    /\ evicted = NoKey
    /\ src \in FileTexts
    /\ out = NoOut
NextLines ==
    \/ get_preprocessor_directives
    \/ analyze_file_directives
SpecLines == InitLines /\ [][NextLines]_vars

(***************************************************************************)
(* SpecDoc: the comment TreeSitterAnalyzer attaches to a function          *)
(*                                                                         *)
(* src is the list of the lines above the line a function definition       *)
(* starts on; the function starts on line Len(src) + 1.                    *)
(***************************************************************************)
MaxAbove == 3      \* lines above the function

\* sub in s
contains(s, sub) == \E k \in 0..(Len(s) - Len(sub)) : startswith(SliceFrom(s, k), sub)
\* s.replace(sub, ''): the occurrences of sub, left to right, taken out
RECURSIVE remove(_, _)
remove(s, sub) ==
    IF Len(s) < Len(sub) THEN s
    ELSE IF startswith(s, sub) THEN remove(SliceFrom(s, Len(sub)), sub)
    ELSE <<Head(s)>> \o remove(Tail(s), sub)
LineComment == <<"/", "/">>
BlockOpen == <<"/", "*">>
BlockClose == <<"*", "/">>
\* the lines of the block comment met at 0-indexed line i, upward to a line
\* that starts with '/*' or to the top of the file
RECURSIVE comment_block(_, _)
comment_block(lines, i) ==
    IF i < 0 THEN <<>>
    ELSE LET l == strip(lines[i + 1])
         IN  IF startswith(l, BlockOpen) THEN <<l>>
             ELSE comment_block(lines, i - 1) \o <<l>>
\* the while loop of _extract_comment_before from 0-indexed line i
\* the scan ending at a blank line
RECURSIVE comment_scan_StopAtBlank(_, _, _)
comment_scan_StopAtBlank(lines, i, comments) ==
    IF i < 0 THEN comments
    ELSE LET line == strip(lines[i + 1])
         IN  IF startswith(line, LineComment)
             THEN comment_scan_StopAtBlank(lines, i - 1,
                                           <<strip(SliceFrom(line, 2))>> \o comments)
             ELSE IF startswith(line, BlockOpen) \/ contains(line, BlockClose)
             THEN LET block_text ==
                          strip(remove(remove(remove(join(comment_block(lines, i), <<" ">>),
                                                     BlockOpen), BlockClose), <<"*">>))
                  IN  <<block_text>> \o comments
             ELSE comments
RECURSIVE comment_scan(_, _, _)
comment_scan(lines, i, comments) ==
    IF i < 0 THEN comments
    ELSE LET line == strip(lines[i + 1])
         IN  IF startswith(line, LineComment)
             THEN comment_scan(lines, i - 1, <<strip(SliceFrom(line, 2))>> \o comments)
             ELSE IF startswith(line, BlockOpen) \/ contains(line, BlockClose)
             THEN LET block_text ==
                          strip(remove(remove(remove(join(comment_block(lines, i), <<" ">>),
                                                     BlockOpen), BlockClose), <<"*">>))
                  IN  <<block_text>> \o comments
             ELSE IF line = <<>> THEN comment_scan(lines, i - 1, comments)
             ELSE comments
extract_comment_before(lines, line_num) ==
    LET comments == comment_scan(lines, line_num - 2, <<>>)
    IN  IF comments # <<>> THEN Some(join(comments, <<"\n">>)) ELSE None

\* the lines a file may hold above a function
LinesAbove ==
    {<<>>,
     <<" ">>,
     <<"/", "/", " ", "A">>,
     <<"/", "/", "B">>,
     <<" ", " ", "/", "/", " ", "B">>,
     <<"/", "*", " ", "A", " ", "*", "/">>,
     <<"/", "*", " ", "A">>,
     <<" ", "*", " ", "B">>,
     <<"B", " ", "*", "/">>,
     <<"A">>,
     <<"A", " ", "/", "*", " ", "B", " ", "*", "/">>,
     <<"/", "*", " ", "A", " ", "*", "/", " ", "B">>}
TextsAbove == UNION {[1..n -> LinesAbove] : n \in 0..MaxAbove}

\* _parse_function: doc_comment of the function that starts below src
doc_comment ==
    Query("doc_comment", "none", extract_comment_before(src, Len(src) + 1))

InitDoc ==
    /\ fs = [p \in Paths |-> InitialContent]
    /\ pending = NoPath
    /\ backend = "TreeSitterAnalyzer"
    /\ max_files = MaxCap
    /\ file_cache = <<>>
    /\ hist = <<>>
    /\ ret = NoRet
    /\ invoked = FALSE
    /\ evicted = NoKey
    /\ src \in TextsAbove \ {NoSrc}
    /\ out = NoOut
NextDoc == doc_comment
SpecDoc == InitDoc /\ [][NextDoc]_vars

(***************************************************************************)
(* Properties of the backends' operations                                  *)
(*                                                                         *)
(* What a file contains is read off src, the file as it was drawn, and     *)
(* compared with what the operation answered in out.                       *)
(***************************************************************************)
Asked(op) == out.op = op
Defined(prog, F) == \E i \in 1..Len(prog) : prog[i].name = F
DefOf(prog, F) == CHOOSE i \in 1..Len(prog) : prog[i].name = F
Elems(s) == {s[k] : k \in 1..Len(s)}
SortedNoDup(s) == \A i, j \in 1..Len(s) : i < j => Rank(s[i]) < Rank(s[j])
\* the direct-identifier callees of the call expressions of a statement
StmtCallees(s) ==
    IF s.kind # "call" THEN {}
    ELSE {s.fn} \cup (IF s.arg = NoArg THEN {} ELSE {s.arg})
CalleesIn(f) == UNION {StmtCallees(f.body[k]) : k \in 1..Len(f.body)}
CountOf(f, kind) == Cardinality({k \in 1..Len(f.body) : f.body[k].kind = kind})
\* the return and goto statements of the i-th definition, in source order
RECURSIVE ExitRecords(_, _, _)
ExitRecords(prog, i, k) ==
    IF k > Len(prog[i].body) THEN <<>>
    ELSE (IF prog[i].body[k].kind \in {"return", "goto"}
          THEN <<[line |-> StmtLine(prog, i, k), type |-> prog[i].body[k].kind]>>
          ELSE <<>>)
         \o ExitRecords(prog, i, k + 1)

\* C5: for either backend, when the file defines F and F contains a call whose
\* callee is a direct identifier g, get_function_dependencies(path, F) returns
\* function = F with g in calls; calls, types and macros are sorted and
\* duplicate-free.
C5_DependenciesFound ==
    Asked("get_function_dependencies") /\ Defined(src, out.name) =>
        /\ out.value.function = out.name
        /\ CalleesIn(src[DefOf(src, out.name)]) \subseteq Elems(out.value.calls)
        /\ SortedNoDup(out.value.calls)
        /\ SortedNoDup(out.value.types)
        /\ SortedNoDup(out.value.macros)

\* C6: for either backend and a function F defined in the file,
\* summarize_function(path, F) sets allocates_memory exactly when F calls
\* malloc, frees_memory exactly when F calls free, multiple_returns exactly
\* when F has two or more return statements and uses_goto exactly when F has a
\* goto statement; nothing outside F sets a flag.
C6_SummaryExact ==
    Asked("summarize_function") /\ Defined(src, out.name) =>
        LET f == src[DefOf(src, out.name)]
        IN  /\ out.value.allocates_memory = ("malloc" \in CalleesIn(f))
            /\ out.value.frees_memory = ("free" \in CalleesIn(f))
            /\ out.value.multiple_returns = (CountOf(f, "return") >= 2)
            /\ out.value.uses_goto = (CountOf(f, "goto") >= 1)

\* C7: for either backend and a function F defined in the file,
\* get_error_handling_paths(path, F) returns one record {line, type} per return
\* statement and per goto statement of F, in traversal order with 1-indexed
\* lines, and nothing for the statements outside F.
C7_ErrorPathsExact ==
    Asked("get_error_handling_paths") /\ Defined(src, out.name) =>
        out.value = ExitRecords(src, DefOf(src, out.name), 1)

\* C8: for either backend and a function F defined in the file,
\* list_side_effects(path, F).io is the sorted, duplicate-free list of exactly
\* the names among printf, write and send that F calls, and allocates_memory is
\* true exactly when F calls malloc.
C8_SideEffectsExact ==
    Asked("list_side_effects") /\ Defined(src, out.name) =>
        LET f == src[DefOf(src, out.name)]
        IN  /\ out.value.io = sorted(CalleesIn(f) \cap io_calls)
            /\ out.value.allocates_memory = ("malloc" \in CalleesIn(f))

\* C9: get_call_graph returns one key for every function definition of the
\* file; the value of a key is the sorted, duplicate-free list of the
\* direct-identifier callees of the call expressions inside that definition,
\* nested calls included, and the empty list when the function makes no call.
C9_CallGraphComplete ==
    Asked("get_call_graph") =>
        /\ DOMAIN out.value = {src[i].name : i \in 1..Len(src)}
        /\ \A i \in 1..Len(src) :
              src[i].name \in DOMAIN out.value =>
                  out.value[src[i].name] = sorted(CalleesIn(src[i]))

\* C10: when the name matches no function definition of the file, no
\* function-scoped operation raises: get_function_body returns None,
\* get_function_dependencies empty calls, types and macros, summarize_function
\* four false flags, get_error_handling_paths an empty list, list_side_effects
\* io = [] and allocates_memory false; conversely get_function_body returns a
\* text for every function that is defined with a body.
C10_UnknownNameAndBody ==
    /\ ~Defined(src, out.name) =>
          /\ Asked("get_function_body") => ~out.value.some
          /\ Asked("get_function_dependencies") =>
                out.value.calls = <<>> /\ out.value.types = <<>> /\ out.value.macros = <<>>
          /\ Asked("summarize_function") =>
                /\ ~out.value.allocates_memory /\ ~out.value.frees_memory
                /\ ~out.value.multiple_returns /\ ~out.value.uses_goto
          /\ Asked("get_error_handling_paths") => out.value = <<>>
          /\ Asked("list_side_effects") =>
                out.value.io = <<>> /\ ~out.value.allocates_memory
    /\ Asked("get_function_body") /\ Defined(src, out.name) => out.value.some

\* the lines of the identifier tokens of the file whose text is s: the name in
\* the header of a definition and the callee names of its call statements
TokenLines(prog, s) ==
    {HeaderLine(prog, i) : i \in {j \in 1..Len(prog) : prog[j].name = s}}
    \cup {StmtLine(prog, p[1], p[2]) :
            p \in {q \in (1..Len(prog)) \X (1..MaxStmts) :
                      /\ q[2] <= Len(prog[q[1]].body)
                      /\ s \in StmtCallees(prog[q[1]].body[q[2]])}}

\* C11: find_symbol(path, s) returns symbol = s and, in lines, the 1-indexed
\* line of every identifier token of the file whose text equals s, and the
\* empty list when no token equals s.
C11_SymbolLines ==
    Asked("find_symbol") =>
        /\ out.value.symbol = out.name
        /\ Elems(out.value.lines) = TokenLines(src, out.name)
        /\ (TokenLines(src, out.name) = {} => out.value.lines = <<>>)

(***************************************************************************)
(* Properties of the directives                                            *)
(***************************************************************************)
AskedDirectives == out.op \in {"get_preprocessor_directives", "analyze_file"}
\* the directives of a list that carry line number n
AtLine(directives, n) == SelectSeq(directives, LAMBDA d : d.line = n)
\* macro names: words without a space, a tab or a parenthesis
MacroNames == {[i \in 1..k |-> "A"] : k \in 1..MaxTail}
\* a value as written after the name: not empty, no blank at either end
IsValueText(v) == v # <<>> /\ v[1] \notin Whitespace /\ v[Len(v)] \notin Whitespace

\* C12: a line '#define NAME value' at 1-indexed position n yields exactly one
\* define directive, with content NAME, value 'value' and line n; a line
\* '#define NAME' yields a define directive with content NAME and no value.
C12_DefineNameValue ==
    AskedDirectives =>
        \A n \in 1..Len(src) : \A NAME \in MacroNames :
            LET bare == KwDefine \o <<" ">> \o NAME
                value == SliceFrom(src[n], Len(bare) + 1)
                found == AtLine(out.value.defines, n)
            IN  /\ src[n] = bare => found = <<Directive(TypeDefine, NAME, n, None)>>
                /\ (startswith(src[n], bare \o <<" ">>) /\ IsValueText(value))
                       => found = <<Directive(TypeDefine, NAME, n, Some(value))>>
C12_Witness ==
    /\ AskedDirectives
    /\ Len(src) = 2
    /\ src[2] = KwDefine \o <<" ", "A", " ", "(">>
    /\ out.value.defines = <<Directive(TypeDefine, <<"A">>, 2, Some(<<"(">>))>>

\* rest: the text after the '#define' prefix, trimmed
RestOf(line) == strip(SliceFrom(strip(line), Len(KwDefine)))
\* b: the smallest 0-indexed position of a space, a tab or a '(' in rest, and
\* the length of rest when it holds none
Boundary(rest) ==
    LET D == {k \in 1..Len(rest) : rest[k] \in {" ", "\t", "("}}
    IN  IF D = {} THEN Len(rest) ELSE Minimum(D) - 1

\* C13: for every line whose stripped text starts with '#define', with rest the
\* trimmed text after the prefix and b the smallest index of a space, a tab or
\* a '(' in rest (the length of rest when there is none), the directive's
\* content is exactly rest[0..b) and its value the trimmed rest[b..], absent
\* when b is at or past the end of rest; for every b, b = 0 included.
C13_DefineBoundary ==
    AskedDirectives =>
        \A n \in 1..Len(src) :
            startswith(strip(src[n]), KwDefine) =>
                LET rest == RestOf(src[n])
                    b == Boundary(rest)
                    value == IF b >= Len(rest) THEN None ELSE Some(strip(SliceFrom(rest, b)))
                IN  AtLine(out.value.defines, n) = <<Directive(TypeDefine, SliceTo(rest, b), n, value)>>

\* the type a stripped line has as a conditional: the first of the keywords, in
\* the order #ifdef, #ifndef, #if, #elif, #else, #endif, that it starts with,
\* without the '#'; <<>> when it starts with none
ConditionalType(stripped) ==
    IF startswith(stripped, <<"#", "i", "f", "d", "e", "f">>) THEN <<"i", "f", "d", "e", "f">>
    ELSE IF startswith(stripped, <<"#", "i", "f", "n", "d", "e", "f">>) THEN <<"i", "f", "n", "d", "e", "f">>
    ELSE IF startswith(stripped, <<"#", "i", "f">>) THEN <<"i", "f">>
    ELSE IF startswith(stripped, <<"#", "e", "l", "i", "f">>) THEN <<"e", "l", "i", "f">>
    ELSE IF startswith(stripped, <<"#", "e", "l", "s", "e">>) THEN <<"e", "l", "s", "e">>
    ELSE IF startswith(stripped, <<"#", "e", "n", "d", "i", "f">>) THEN <<"e", "n", "d", "i", "f">>
    ELSE <<>>

\* C14: each line yields at most one conditional directive, and yields one
\* exactly when its stripped text starts with one of #ifdef, #ifndef, #if,
\* #elif, #else, #endif; the directive's type is the first keyword in that
\* order that the line starts with, minus the '#', and its line the 1-indexed
\* line number.
C14_ConditionalType ==
    AskedDirectives =>
        /\ \A k \in 1..Len(out.value.conditionals) :
               out.value.conditionals[k].line \in 1..Len(src)
        /\ \A n \in 1..Len(src) :
               LET type == ConditionalType(strip(src[n]))
                   found == AtLine(out.value.conditionals, n)
               IN  /\ Len(found) <= 1
                   /\ Len(found) = 1 <=> type # <<>>
                   /\ Len(found) = 1 => found[1].type = type
C14_Witness ==
    /\ AskedDirectives
    /\ Len(src) = 2
    /\ src[2] = <<" ">> \o <<"#", "i", "f", "n", "d", "e", "f">> \o <<" ", "A">>
    /\ Len(out.value.conditionals) = 2
    /\ out.value.conditionals[2].type = <<"i", "f", "n", "d", "e", "f">>
    /\ out.value.conditionals[2].line = 2

SameDirectives(a, b) ==
    /\ a.includes = b.includes
    /\ a.defines = b.defines
    /\ a.conditionals = b.conditionals

\* C20: for every line array the two backends return equal includes, defines
\* and conditionals from get_preprocessor_directives, and in each backend the
\* includes, defines and conditionals of analyze_file equal those of
\* get_preprocessor_directives on the same content.
C20_DirectivesAgree ==
    AskedDirectives =>
        /\ SameDirectives(TS_get_preprocessor_directives(src),
                          Clang_get_preprocessor_directives(src))
        /\ SameDirectives(out.value, IF out.backend = "TreeSitterAnalyzer"
                                     THEN TS_get_preprocessor_directives(src)
                                     ELSE Clang_get_preprocessor_directives(src))
C20_Witness ==
    /\ out.op = "analyze_file"
    /\ out.backend = "ClangAnalyzer"
    /\ src[Len(src)] = <<" ">> \o KwInclude \o <<" ", "A">>
    /\ out.value.includes # <<>>
    /\ out.value.conditionals # <<>>
    /\ out.value = TS_get_preprocessor_directives(src)

(***************************************************************************)
(* Properties of list_functions and analyze_file                           *)
(***************************************************************************)
\* analyze_file(path).functions of the backend that answered
AnalysedFunctions ==
    IF out.backend = "TreeSitterAnalyzer" THEN TS_analyze_file(src).functions
    ELSE Clang_analyze_file(src).functions

DeclaredInFile(prog, kind) ==
    {[name |-> TypeDecls[k].name, line |-> TypeLine(prog, k)] :
        k \in {j \in 1..Len(TypeDecls) : TypeDecls[j].kind = kind}}
\* the functions the file itself defines, as name and lines
DefinedInFile(prog) ==
    {FunctionInfo(prog[i].name, HeaderLine(prog, i), EndLine(prog, i)) : i \in 1..Len(prog)}

\* C19: in the clang backend every function that list_functions and
\* analyze_file return is a function definition located in the target file,
\* and every struct, enum and typedef that analyze_file returns is located in
\* the target file; declarations of included files are never reported.
C19_OnlyTargetFile ==
    out.backend = "ClangAnalyzer" =>
        /\ Asked("list_functions") => Elems(out.value) \subseteq DefinedInFile(src)
        /\ Asked("analyze_file") =>
               /\ Elems(out.value.functions) \subseteq DefinedInFile(src)
               /\ Elems(out.value.structs) \subseteq DeclaredInFile(src, "struct")
               /\ Elems(out.value.enums) \subseteq DeclaredInFile(src, "enum")
               /\ Elems(out.value.typedefs) \subseteq DeclaredInFile(src, "typedef")
C19_Witness ==
    /\ out.backend = "ClangAnalyzer"
    /\ Asked("analyze_file")
    /\ Len(out.value.functions) = 2
    /\ out.value.structs # <<>>
    /\ out.value.enums # <<>>
    /\ out.value.typedefs # <<>>
    /\ \E k \in 1..Len(walk_preorder(ClangParse(src))) :
           /\ IsDefinition(walk_preorder(ClangParse(src))[k])
           /\ walk_preorder(ClangParse(src))[k].file = HeaderFile

C17_PassThroughFrame ==
    [][(ret = NoRet /\ ret'.kind = "pass") =>
           (invoked' /\ file_cache' = file_cache /\ evicted' = NoKey)]_vars
\* a pass-through call has returned while the cache is full and holds a
\* derived result
C17_Witness ==
    /\ ret.kind = "pass" /\ ret.status = "ok" /\ invoked
    /\ max_files >= 1
    /\ Len(file_cache) = max_files
    /\ \E n \in 1..Len(file_cache) : DOMAIN file_cache[n].derived # {}

\* the kind of derived result an operation asks for
KindAsked(op) ==
    IF op = "analyze_file" THEN "analysis_result"
    ELSE IF op = "list_functions" THEN "functions"
    ELSE IF op = "get_call_graph" THEN "call_graph"
    ELSE "globals"
\* the derived results held for key in a cache (none when key is not resident)
DerivedOf(cache, key) ==
    IF key \in Keys(cache) THEN cache[IndexOf(cache, key)].derived ELSE <<>>

\* C18: within an entry each derived kind is memoized independently and
\* lazily: a cached call invokes the backend exactly when its kind is not yet
\* stored in the entry for the key, stores that kind and no other, leaves the
\* kinds already stored as they are, and returns the stored value.
C18_LazyPerKind ==
    [][(ret = NoRet /\ ret'.kind = "cached" /\ ret'.status = "ok") =>
           LET key == hist'[Len(hist')].key
               kind == KindAsked(ret'.op)
               before == DerivedOf(file_cache, key)
               after == DerivedOf(file_cache', key)
           IN  /\ invoked' <=> kind \notin DOMAIN before
               /\ DOMAIN after = DOMAIN before \cup {kind}
               /\ \A k \in DOMAIN before : after[k] = before[k]
               /\ ret'.value = after[kind]]_vars
\* a hit on an entry that holds another kind only: the backend is invoked for
\* the kind asked, and the entry then holds both
C18_Witness ==
    /\ CachedOk /\ invoked
    /\ evicted = NoKey
    /\ \E i \in 1..(Len(hist) - 1) : hist[i].key = LastLookup.key /\ hist[i].op # ret.op
    /\ Cardinality(DOMAIN DerivedOf(file_cache, LastLookup.key)) = 2

\* C25: an entry leaves the cache only through the eviction of the least
\* recently used entry, on a miss at full capacity; rewriting a file leaves
\* the cache as it is, so the entry keyed by the old hash stays resident and
\* counts against the capacity, and a call that finds the file back at that
\* content is served from it without invoking the backend.
C25_OnlyEvictionRemoves ==
    [][/\ \A k \in Keys(file_cache) \ Keys(file_cache') :
              /\ ret = NoRet /\ ret'.kind = "cached" /\ ret'.status = "ok"
              /\ invoked'
              /\ hist'[Len(hist')].key \notin Keys(file_cache)
              /\ Len(file_cache) = max_files
              /\ k = file_cache[1].key
              /\ evicted' = k
       /\ (fs' # fs => file_cache' = file_cache)
       /\ (ret = NoRet /\ ret'.kind = "cached" /\ ret'.status = "ok") =>
              LET key == hist'[Len(hist')].key
                  kind == KindAsked(ret'.op)
              IN  (key \in Keys(file_cache) /\ kind \in DOMAIN DerivedOf(file_cache, key))
                      => (~invoked' /\ ret'.value = DerivedOf(file_cache, key)[kind])]_vars
\* a file went from one content to another and back, both contents were
\* looked up, both entries are resident and fill the cache, and the latest
\* call was served from the older one without the backend
C25_Witness ==
    /\ CachedOk /\ ~invoked
    /\ Len(file_cache) = max_files
    /\ \E i, j \in 1..(Len(hist) - 1) :
          /\ i < j
          /\ hist[i].key = LastLookup.key /\ hist[i].op = ret.op
          /\ hist[j].path = ret.path /\ hist[j].content # LastLookup.content
          /\ hist[j].key \in Keys(file_cache)

\* C26: when the file is missing or unreadable at the call, a cached
\* operation propagates the failure to the caller and leaves the cache
\* exactly as it was: no entry created, evicted or moved, the backend not
\* invoked.
C26_FailedReadKeepsCache ==
    [][(ret = NoRet /\ ret'.kind = "cached" /\ fs[ret'.path] = Missing) =>
           /\ ret'.status = "IOError"
           /\ file_cache' = file_cache
           /\ evicted' = NoKey
           /\ ~invoked']_vars
\* a call failed on a file that was removed after an earlier call had cached
\* it; the cache is full and still holds the entry
C26_Witness ==
    /\ ret.kind = "cached" /\ ret.status = "IOError" /\ ~invoked
    /\ fs[ret.path] = Missing
    /\ Len(file_cache) = max_files
    /\ \E n \in 1..Len(file_cache) :
          file_cache[n].file_path = ret.path /\ DOMAIN file_cache[n].derived # {}

\* C27: every derived result stored in an entry was computed from the
\* content whose hash is in the key of the entry, also when the file is
\* rewritten between the cache's read-and-hash and the analyzer's own read
\* within the same call.
C27_DerivedMatchesKey ==
    \A n \in 1..Len(file_cache) :
        \A k \in DOMAIN file_cache[n].derived :
            sha256(file_cache[n].derived[k].of) = file_cache[n].key[3]

\* whether a call failed inside the wrapped analyzer
FailedInBackend(call) ==
    call.invoked /\ call.status \in {"IOError", "UnicodeDecodeError"}
\* C29: when the wrapped analyzer raises during a cached operation, the
\* failure reaches the caller, no derived result of that kind is stored, and
\* the next call of the operation on the unchanged content invokes the
\* analyzer again; the entry inserted for the miss stays resident with that
\* kind unset, and an eviction the insertion caused is not undone.
C29_BackendFailure ==
    [][/\ (ret.status = "in_backend" /\ ret'.status \notin {"in_backend", "ok"}) =>
              /\ ret'.status \in {"IOError", "UnicodeDecodeError"}
              /\ ret'.value = NoValue
              /\ file_cache' = file_cache
              /\ hist[Len(hist)].key \in Keys(file_cache')
              /\ KindAsked(ret.op) \notin DOMAIN DerivedOf(file_cache', hist[Len(hist)].key)
              /\ evicted' = evicted
              /\ (evicted # NoKey => evicted \notin Keys(file_cache'))
       /\ \A i \in 1..(Len(hist') - 1) :
              (/\ FailedInBackend(hist'[i])
               /\ hist'[i + 1].key = hist'[i].key
               /\ hist'[i + 1].op = hist'[i].op) => hist'[i + 1].invoked]_vars
\* the analyzer raised on bytes that are not UTF-8, the entry stayed without
\* the kind, and the next call on the same bytes invoked the analyzer again
C29_Witness ==
    /\ Len(hist) = 2
    /\ hist[1].status = "UnicodeDecodeError" /\ hist[1].invoked
    /\ hist[2].key = hist[1].key /\ hist[2].op = hist[1].op
    /\ hist[2].invoked
    /\ ret.status = "UnicodeDecodeError"
    /\ hist[2].key \in Keys(file_cache)
    /\ KindAsked(ret.op) \notin DOMAIN DerivedOf(file_cache, hist[2].key)

\* C28: for every max_files, zero and negative values included, the eviction
\* step removes an entry only from a cache that holds one, so no cached
\* operation fails because an eviction was attempted on an empty cache.
C28_EvictionNeverFails == ret.kind = "cached" => ret.status # "KeyError"

(***************************************************************************)
(* Properties of the attached comment                                      *)
(***************************************************************************)
IsLineComment(l) == startswith(strip(l), LineComment)
IsBlank(l) == strip(l) = <<>>
\* a line of a block comment as the scan knows it
IsBlockLine(l) == startswith(strip(l), BlockOpen) \/ contains(strip(l), BlockClose)
\* the lowest line above the function that is neither blank nor a '//' comment
\* (0: there is none)
ScanEnd ==
    LET S == {k \in 1..Len(src) : ~IsBlank(src[k]) /\ ~IsLineComment(src[k])}
    IN  IF S = {} THEN 0 ELSE CHOOSE k \in S : \A j \in S : j <= k
\* the '//' comments below line t, in source order, without their marker
LineCommentsBelow(t) ==
    LET kept == SelectSeq([k \in 1..Len(src) |-> IF k > t /\ IsLineComment(src[k])
                                                 THEN <<src[k]>> ELSE <<>>],
                          LAMBDA x : x # <<>>)
    IN  [k \in 1..Len(kept) |-> strip(SliceFrom(strip(kept[k][1]), 2))]

\* C21: the scan goes upward from the line above the function; '//' lines
\* are collected in source order without the marker, blank lines are skipped
\* without ending the scan, and the scan ends at the first line that is
\* neither blank nor a comment; doc_comment is absent when the first
\* non-blank line above the function is not a comment.
C21_LineComments ==
    (Asked("doc_comment") /\ (ScanEnd = 0 \/ ~IsBlockLine(src[ScanEnd]))) =>
        LET collected == LineCommentsBelow(ScanEnd)
        IN  /\ collected # <<>> => out.value = Some(join(collected, <<"\n">>))
            /\ collected = <<>> => out.value = None
C21_Witness ==
    /\ Asked("doc_comment")
    /\ src = <<<<"/", "/", " ", "A">>, <<" ">>, <<" ", " ", "/", "/", " ", "B">>>>
    /\ out.value = Some(<<"A", "\n", "B">>)

\* the line that holds the opening '/*' of the block comment met at line c:
\* the lowest line at or above c that contains '/*' (0: there is none)
OpeningLine(c) ==
    LET S == {k \in 1..c : contains(strip(src[k]), BlockOpen)}
    IN  IF S = {} THEN 0 ELSE CHOOSE k \in S : \A j \in S : j <= k
\* the lines a..b stripped, joined by a space, with '/*', '*/' and '*' removed
BlockText(a, b) ==
    strip(remove(remove(remove(join([k \in 1..(b - a + 1) |-> strip(src[a + k - 1])], <<" ">>),
                               BlockOpen), BlockClose), <<"*">>))

\* C22: when the upward scan meets a block comment, the text collected for it
\* consists of exactly the lines from the comment's closing line back to the
\* line that contains its opening '/*' (markers removed), the scan stops
\* there, and no line above the line holding the opening '/*' is included.
C22_BlockComment ==
    (Asked("doc_comment") /\ ScanEnd > 0 /\ IsBlockLine(src[ScanEnd])
        /\ OpeningLine(ScanEnd) > 0) =>
        out.value = Some(join(<<BlockText(OpeningLine(ScanEnd), ScanEnd)>>
                              \o LineCommentsBelow(ScanEnd), <<"\n">>))


(***************************************************************************)
(* Properties of list_globals and of the call graph of top-level code      *)
(***************************************************************************)
\* the variables declared at the top level of the file, as their lines
VariableLines(prog) == {v.line : v \in DeclaredInFile(prog, "variable")}
\* the variables the included files declare at top level
HeaderVariables ==
    {[name |-> HeaderDecls[k].spelling, line |-> HeaderDecls[k].line] :
        k \in {j \in 1..Len(HeaderDecls) : HeaderDecls[j].kind = "VAR_DECL"}}

\* C24: every record list_globals returns stands for a variable declared at
\* the top level of the translation unit: its line is the line of such a
\* variable; a top-level declaration that is not a variable, such as a
\* function prototype, is never reported.
C24_GlobalsAreVariables ==
    Asked("list_globals") =>
        \A k \in 1..Len(out.value) :
            \/ out.value[k].line \in VariableLines(src)
            \/ out.backend = "ClangAnalyzer" /\ out.value[k] \in HeaderVariables

\* C30: in the clang backend get_call_graph records a call expression only
\* in the callee list of the function definition whose subtree contains it:
\* the list of a function of the file holds callees of its own call
\* expressions only, and a call of a top-level initializer placed after the
\* function is in no list.
C30_CallsInsideDefinition ==
    Asked("get_call_graph") /\ out.backend = "ClangAnalyzer" =>
        \A i \in 1..Len(src) :
            src[i].name \in DOMAIN out.value =>
                Elems(out.value[src[i].name]) \subseteq CalleesIn(src[i])

(***************************************************************************)
(* Properties of the parsed function: name, parameters, signature          *)
(***************************************************************************)
\* the definition of the file whose header is at the given line
DefAt(prog, line) == CHOOSE i \in 1..Len(prog) : HeaderLine(prog, i) = line
\* the {type, name} pairs of the parameter declarations of a definition
DeclaredParameters(f) ==
    [j \in 1..Len(Params(f.name)) |->
        [type |-> Params(f.name)[j].type, name |-> Params(f.name)[j].name]]

\* C23: for every function definition the tree-sitter backend reports, name
\* is the bare identifier of the declarator and, the declarator holding a
\* function declarator (directly or inside a pointer declarator), parameters
\* holds one {type, name} pair per parameter declaration, in order, and
\* signature is '<return_type> <name>(<type name>, ...)'.
C23_ParametersAndSignature ==
    Asked("list_functions") /\ out.backend = "TreeSitterAnalyzer" =>
        \A k \in 1..Len(out.value) :
            LET r == out.value[k]
                f == src[DefAt(src, r.start_line)]
            IN  /\ r.name = f.name
                /\ r.parameters = DeclaredParameters(f)
                /\ r.signature =
                       <<r.return_type, " ", f.name, "(">>
                       \o join([j \in 1..Len(DeclaredParameters(f)) |->
                                   <<DeclaredParameters(f)[j].type, " ",
                                     DeclaredParameters(f)[j].name>>],
                               <<", ">>)
                       \o <<")">>
====
